---- MODULE Spec2Model ----
(***************************************************************************)
(* Model of the CasperYield AI optimizer (src/ai-agent).                   *)
(*                                                                         *)
(* Part 1: YieldOptimizerAgent (optimizer/agent.py) together with its      *)
(*   callers: the HTTP handlers of api/server.py and the continuous loop   *)
(*   of main.py.  All callers run as asyncio tasks on one event loop, so   *)
(*   a task's code between two suspension points is one atomic step.  The  *)
(*   only suspension point inside run_optimization is the metrics fetch    *)
(*   (fetch_data: network I/O and closing the HTTP client); everything     *)
(*   after it (normalise, forecast, solve, risk, publish) is synchronous.  *)
(*                                                                         *)
(* Part 2: PortfolioRebalancer.optimize (optimizer/rebalancer.py) as a     *)
(*   function of the strategies' bounds, the objective and the outcome of  *)
(*   the SLSQP solve, with exact rational weights.                         *)
(*                                                                         *)
(* Part 3: the other computations, each as a function studied on its own:  *)
(*   the correlation matrix (data/processor.py), rebalance recommendation  *)
(*   and trades, risk scores (optimizer/risk_analyzer.py) and the          *)
(*   efficient frontier.                                                   *)
(*                                                                         *)
(* Part 4: the data that goes through one cycle of run_optimization, from  *)
(*   the registry query (casper/contract.py, data/fetcher.py) to the       *)
(*   rebalance recommendation, which decides whether the cycle returns.    *)
(*                                                                         *)
(* Units: allocation weights of AgentState are integers in percent         *)
(* (100 = 1.0).  Timestamps are readings of a logical clock that advances  *)
(* on every datetime.utcnow() call.                                        *)
(***************************************************************************)
EXTENDS Integers, Sequences, FiniteSets, TLC

VARIABLES
    cfgfile,        \* what is found at config_path when the agent is constructed
    config,         \* self.config
    phase,          \* lifecycle position of the agent object
    data_fetcher,   \* TRUE when self.data_fetcher (and the other components) is set
    rpc_url,        \* the endpoint handed to CasperClient by initialize()
    state,          \* self.state : AgentState
    last_result,    \* self._last_result
    clock,          \* logical time returned by datetime.utcnow()
    pc,             \* position of every task
    call,           \* outcome of the task's latest run_optimization call
    response,       \* what the task's handler hands back to its caller
    cancel_requested, \* the continuous-mode task has been cancelled
    published,      \* history: the snapshots published by completed cycles
    opt,            \* Part 2: the optimizer's input and output
    calc,           \* Part 3: input and output of the computation under study
    cycle           \* Part 4: the data that went through the latest cycle

agentVars == <<cfgfile, config, phase, data_fetcher, rpc_url, state, last_result,
               clock, pc, call, response, cancel_requested, published>>
vars == <<cfgfile, config, phase, data_fetcher, rpc_url, state, last_result,
          clock, pc, call, response, cancel_requested, published, opt, calc, cycle>>

\* Python's None where a timestamp is expected (every clock reading is >= 1)
None == 0

\* self._last_result = None : no result cached yet
NoResult == [timestamp |-> None, has_rebalance |-> FALSE]

\* a task that has nothing to hand back
NoResponse == [kind |-> "none"]

(***************************************************************************)
(* Bounds of the model.                                                    *)
(***************************************************************************)
MaxClock == 4       \* utcnow() readings explored
MaxErr == 2         \* failed cycles explored

ApiTasks == {"api1", "api2"}
LoopTask == "loop"
Tasks == ApiTasks \cup {LoopTask}

(***************************************************************************)
(* Allocation maps (strategy id -> weight in percent) a caller may pass.   *)
(* A map is a set of <<id, weight>> pairs with distinct ids.               *)
(***************************************************************************)
AllocInputs ==
    { {<<"staking", 100>>},
      {<<"staking", 50>>, <<"lending", 50>>},
      {<<"staking", 50>>},
      {<<"staking", 100>>, <<"lending", 50>>},
      {<<"staking", 99>>},
      {<<"staking", 102>>} }

RECURSIVE SumWeights(_)
SumWeights(m) ==
    IF m = {} THEN 0
    ELSE LET e == CHOOSE x \in m : TRUE
         IN  e[2] + SumWeights(m \ {e})

\* server.py update_allocation: "if not (0.99 <= total <= 1.01)"
AllocationSumValid(m) == 99 <= SumWeights(m) /\ SumWeights(m) <= 101

(***************************************************************************)
(* Configuration.                                                          *)
(***************************************************************************)
ConfigFiles == {"missing", "complete", "no_rpc", "no_contract"}

\* _default_config: testnet endpoint and three placeholder contract hashes
_default_config == [source |-> "default", rpc |-> TRUE, contracts |-> TRUE]

\* _load_config: any failure to read the file yields the default configuration
_load_config(f) ==
    IF f = "missing" THEN _default_config
    ELSE [source |-> "file", rpc |-> (f # "no_rpc"), contracts |-> (f # "no_contract")]

AgentStateInit ==
    [is_running |-> FALSE, last_optimization |-> None, last_data_fetch |-> None,
     current_allocations |-> {}, optimization_count |-> 0, error_count |-> 0]

NoSnapshot == [ts |-> None, count |-> 0, result |-> NoResult]

OptIdle == [stage |-> "off"]

CalcIdle == [stage |-> "off"]

CycleIdle == [stage |-> "off"]

\* YieldOptimizerAgent.__init__
Init ==
    /\ cfgfile \in ConfigFiles
    /\ config = _load_config(cfgfile)
    /\ phase = "constructed"
    /\ data_fetcher = FALSE
    /\ rpc_url = "unset"
    /\ state = AgentStateInit
    /\ last_result = NoResult
    /\ clock = 1
    /\ pc = [p \in Tasks |-> "idle"]
    /\ call = [p \in Tasks |-> "none"]
    /\ response = [p \in Tasks |-> NoResponse]
    /\ cancel_requested = FALSE
    /\ published = {NoSnapshot}
    /\ opt = OptIdle
    /\ calc = CalcIdle
    /\ cycle = CycleIdle

(***************************************************************************)
(* Lifecycle.                                                              *)
(***************************************************************************)
\* initialize(): the endpoint is looked up with .get() (None when absent),
\* the contract identifiers with [] (KeyError when absent, raised after
\* casper_client has been set and before anything else is).
initialize ==
    /\ phase = "constructed"
    /\ rpc_url' = IF config.rpc THEN "url" ELSE "None"
    /\ IF config.contracts
       THEN /\ data_fetcher' = TRUE
            /\ state' = [state EXCEPT !.is_running = TRUE]
            /\ phase' = "initialized"
       ELSE /\ phase' = "init_failed"
            /\ UNCHANGED <<data_fetcher, state>>
    /\ UNCHANGED <<cfgfile, config, last_result, clock, pc, call, response,
                   cancel_requested, published, opt, calc, cycle>>

\* shutdown(): clears the flag; the components stay set
shutdown ==
    /\ phase # "stopped"
    /\ state' = [state EXCEPT !.is_running = FALSE]
    /\ phase' = "stopped"
    /\ UNCHANGED <<cfgfile, config, data_fetcher, rpc_url, last_result, clock, pc,
                   call, response, cancel_requested, published, opt, calc, cycle>>

(***************************************************************************)
(* run_optimization, split at its only suspension point.                   *)
(***************************************************************************)
\* faulty variant: the previous cycle's allocation counts as a prior allocation
OptimizationResult_AfterFirstCycle(ts, st) ==
    [timestamp |-> ts,
     has_rebalance |-> (st.current_allocations # {} \/ st.optimization_count > 0)]

\* The result assembled at step 7.  The rebalance recommendation is computed
\* only "if self.state.current_allocations" (a non-empty map).
OptimizationResult(ts, st) ==
    [timestamp |-> ts, has_rebalance |-> (st.current_allocations # {})]

\* fetch_data, after the awaited fetch has returned: records the fetch time
fetch_data(st, now) == [st EXCEPT !.last_data_fetch = now]

\* faulty variant: the counter is published, the timestamp is not
UpdateState_CountOnly(st, result) ==
    [st EXCEPT !.optimization_count = @ + 1]

\* "Update state" on success: timestamp and success counter
UpdateState(st, result) ==
    [st EXCEPT !.last_optimization = result.timestamp,
               !.optimization_count = @ + 1]

\* faulty variant: the failure is stamped as the latest optimization
CountError_StampsFailure(st) ==
    [st EXCEPT !.error_count = @ + 1, !.last_optimization = st.last_data_fetch]

\* faulty variant: the failure is not counted
CountError_NotCounted(st) == st

\* the except clause of run_optimization: error counter, then re-raise
CountError(st) == [st EXCEPT !.error_count = @ + 1]

\* What the cycle is about to publish, taken as one snapshot.
Snapshot(st, result) ==
    [ts |-> result.timestamp, count |-> st.optimization_count + 1, result |-> result]

\* run_optimization up to the fetch.  Without a data fetcher "async with
\* self.data_fetcher" raises at once; the error is counted and re-raised.
\* Otherwise the task suspends in the fetch.
EnterFails == ~data_fetcher

RunOptEnterFail(p) ==
    /\ EnterFails
    /\ state.error_count < MaxErr
    /\ state' = CountError(state)
    /\ call' = [call EXCEPT ![p] = "raised"]
    /\ UNCHANGED <<last_result, clock, published>>

RunOptEnterSuspend(p) ==
    /\ ~EnterFails
    /\ call' = [call EXCEPT ![p] = "running"]
    /\ UNCHANGED <<state, last_result, clock, published>>

\* The rest of the cycle once the fetch has returned, run to completion
\* without suspension: steps 2-7 and the state update.
RunOptSucceed(p) ==
    /\ clock + 1 <= MaxClock
    /\ LET fetched == fetch_data(state, clock)
           result == OptimizationResult(clock + 1, fetched)
       IN  /\ state' = UpdateState(fetched, result)
           /\ last_result' = result
           /\ published' = published \cup {Snapshot(fetched, result)}
    /\ clock' = clock + 2
    /\ call' = [call EXCEPT ![p] = "returned"]

\* A step after the fetch raises an Exception.
RunOptFail(p) ==
    /\ clock <= MaxClock
    /\ state.error_count < MaxErr
    /\ state' = CountError(fetch_data(state, clock))
    /\ clock' = clock + 1
    /\ call' = [call EXCEPT ![p] = "raised"]
    /\ UNCHANGED <<last_result, published>>

\* get_state(): asdict(self.state), a copy of every field
get_state == state

\* get_last_result(): None, or a dictionary built from the cached result
get_last_result == last_result

(***************************************************************************)
(* HTTP handlers (api/server.py) and direct callers of the agent.          *)
(* A handler that awaits run_optimization or fetch_data is suspended in    *)
(* the fetch; pc names the handler waiting.                                *)
(***************************************************************************)
ErrorResponse == [kind |-> "error"]

\* faulty variant: the handler keeps the cache it read before awaiting the cycle
CacheRead_BeforeCycle(before, after) == before

\* "result = agent.get_last_result()" in optimize_portfolio: read after
\* get_recommendation has returned, with no suspension in between
CacheRead(before, after) == after

\* OptimizationResponse: timestamp, allocation and risk score are formatted by
\* get_recommendation from the result its own cycle returned; var_95 and
\* max_drawdown are read from the cache ("if result else 0").  risk_of is the
\* timestamp of the cycle the two cached figures belong to.
OptimizationResponse(result, cached) ==
    [kind |-> "optimize", timestamp |-> result.timestamp, risk_of |-> cached.timestamp]

\* POST /optimize -> get_recommendation -> run_optimization (up to the fetch);
\* also main.py run_single_optimization
optimize_portfolio(p) ==
    /\ pc[p] = "idle"
    /\ \/ /\ RunOptEnterFail(p)
          /\ pc' = [pc EXCEPT ![p] = "done"]
          /\ response' = [response EXCEPT ![p] = ErrorResponse]
       \/ /\ RunOptEnterSuspend(p)
          /\ pc' = [pc EXCEPT ![p] = "optimize"]
          /\ UNCHANGED response
    /\ UNCHANGED <<cfgfile, config, phase, data_fetcher, rpc_url, cancel_requested, opt, calc, cycle>>

\* the fetch returns in POST /optimize: the cycle completes, get_recommendation
\* formats its result and the handler reads var_95/max_drawdown from
\* get_last_result(), all without suspending
optimize_portfolio_resume(p) ==
    /\ pc[p] = "optimize"
    /\ \/ /\ RunOptSucceed(p)
          /\ response' = [response EXCEPT ![p] =
                 OptimizationResponse(
                     OptimizationResult(clock + 1, fetch_data(state, clock)),
                     CacheRead(get_last_result, get_last_result'))]
       \/ /\ RunOptFail(p)
          /\ response' = [response EXCEPT ![p] = ErrorResponse]
    /\ pc' = [pc EXCEPT ![p] = "done"]
    /\ UNCHANGED <<cfgfile, config, phase, data_fetcher, rpc_url, cancel_requested, opt, calc, cycle>>

\* GET /risk-analysis (likewise /strategies): the cached result when there is
\* one, otherwise a cycle is run first
get_risk_analysis(p) ==
    /\ pc[p] = "idle"
    /\ IF get_last_result # NoResult
       THEN /\ pc' = [pc EXCEPT ![p] = "done"]
            /\ response' = [response EXCEPT ![p] = [kind |-> "result", value |-> get_last_result]]
            /\ UNCHANGED <<state, last_result, clock, call, published>>
       ELSE \/ /\ RunOptEnterFail(p)
               /\ pc' = [pc EXCEPT ![p] = "done"]
               /\ response' = [response EXCEPT ![p] = ErrorResponse]
            \/ /\ RunOptEnterSuspend(p)
               /\ pc' = [pc EXCEPT ![p] = "risk_analysis"]
               /\ UNCHANGED response
    /\ UNCHANGED <<cfgfile, config, phase, data_fetcher, rpc_url, cancel_requested, opt, calc, cycle>>

get_risk_analysis_resume(p) ==
    /\ pc[p] = "risk_analysis"
    /\ \/ /\ RunOptSucceed(p)
          /\ response' = [response EXCEPT ![p] = [kind |-> "result", value |-> last_result']]
       \/ /\ RunOptFail(p)
          /\ response' = [response EXCEPT ![p] = ErrorResponse]
    /\ pc' = [pc EXCEPT ![p] = "done"]
    /\ UNCHANGED <<cfgfile, config, phase, data_fetcher, rpc_url, cancel_requested, opt, calc, cycle>>

\* GET /health (likewise GET /allocation): get_state()
health_check(p) ==
    /\ pc[p] = "idle"
    /\ pc' = [pc EXCEPT ![p] = "done"]
    /\ response' = [response EXCEPT ![p] =
           [kind |-> "health",
            agent_running |-> get_state.is_running,
            last_optimization |-> get_state.last_optimization,
            optimization_count |-> get_state.optimization_count,
            error_count |-> get_state.error_count]]
    /\ UNCHANGED <<cfgfile, config, phase, data_fetcher, rpc_url, state, last_result,
                   clock, call, cancel_requested, published, opt, calc, cycle>>

\* GET /efficient-frontier: awaits agent.fetch_data() outside any cycle.
\* Without a data fetcher the call raises and the handler answers 500.
get_efficient_frontier(p) ==
    /\ pc[p] = "idle"
    /\ IF data_fetcher
       THEN /\ pc' = [pc EXCEPT ![p] = "frontier"]
            /\ UNCHANGED response
       ELSE /\ pc' = [pc EXCEPT ![p] = "done"]
            /\ response' = [response EXCEPT ![p] = ErrorResponse]
    /\ UNCHANGED <<cfgfile, config, phase, data_fetcher, rpc_url, state, last_result,
                   clock, call, cancel_requested, published, opt, calc, cycle>>

get_efficient_frontier_resume(p) ==
    /\ pc[p] = "frontier"
    /\ clock <= MaxClock
    /\ state' = fetch_data(state, clock)
    /\ clock' = clock + 1
    /\ pc' = [pc EXCEPT ![p] = "done"]
    /\ response' = [response EXCEPT ![p] = [kind |-> "frontier"]]
    /\ UNCHANGED <<cfgfile, config, phase, data_fetcher, rpc_url, last_result,
                   call, cancel_requested, published, opt, calc, cycle>>

\* YieldOptimizerAgent.update_allocations: stores the map it is given
update_allocations(st, new_allocations) ==
    [st EXCEPT !.current_allocations = new_allocations]

\* POST /allocation: validates the sum, then calls agent.update_allocations
update_allocation(p, m) ==
    /\ pc[p] = "idle"
    /\ pc' = [pc EXCEPT ![p] = "done"]
    /\ IF ~AllocationSumValid(m)
       THEN /\ response' = [response EXCEPT ![p] = [kind |-> "rejected"]]
            /\ UNCHANGED state
       ELSE /\ state' = update_allocations(state, m)
            /\ response' = [response EXCEPT ![p] = [kind |-> "updated"]]
    /\ UNCHANGED <<cfgfile, config, phase, data_fetcher, rpc_url, last_result,
                   clock, call, cancel_requested, published, opt, calc, cycle>>

\* a caller that uses the agent's own operation, agent.update_allocations(m)
call_update_allocations(p, m) ==
    /\ pc[p] = "idle"
    /\ pc' = [pc EXCEPT ![p] = "done"]
    /\ state' = update_allocations(state, m)
    /\ response' = [response EXCEPT ![p] = [kind |-> "applied"]]
    /\ UNCHANGED <<cfgfile, config, phase, data_fetcher, rpc_url, last_result,
                   clock, call, cancel_requested, published, opt, calc, cycle>>

\* the caller takes the response; the task is free for the next request
Respond(p) ==
    /\ pc[p] = "done"
    /\ pc' = [pc EXCEPT ![p] = "idle"]
    /\ call' = [call EXCEPT ![p] = "none"]
    /\ response' = [response EXCEPT ![p] = NoResponse]
    /\ UNCHANGED <<cfgfile, config, phase, data_fetcher, rpc_url, state, last_result,
                   clock, cancel_requested, published, opt, calc, cycle>>

(***************************************************************************)
(* run_continuous (the task started by main.py --mode continuous).         *)
(***************************************************************************)
\* "while self.state.is_running:" followed by the start of the next cycle
LoopIterate ==
    IF ~state.is_running
    THEN /\ pc' = [pc EXCEPT ![LoopTask] = "returned"]
         /\ UNCHANGED <<state, last_result, clock, call, published>>
    ELSE \/ /\ RunOptEnterFail(LoopTask)
            /\ pc' = [pc EXCEPT ![LoopTask] = "backoff"]
         \/ /\ RunOptEnterSuspend(LoopTask)
            /\ pc' = [pc EXCEPT ![LoopTask] = "cycle"]

run_continuous ==
    /\ pc[LoopTask] = "idle"
    /\ LoopIterate
    /\ UNCHANGED <<cfgfile, config, phase, data_fetcher, rpc_url, response,
                   cancel_requested, opt, calc, cycle>>

\* faulty variant: a failed cycle ends the loop
AfterCycle_StopOnFailure(outcome) == IF outcome = "returned" THEN "sleep" ELSE "returned"

\* where the loop goes when its cycle ends: the inter-cycle sleep after a
\* success, "except Exception" and the 300 s back-off sleep after a failure
AfterCycle(outcome) == IF outcome = "returned" THEN "sleep" ELSE "backoff"

\* the fetch returns inside the loop's cycle
run_continuous_resume ==
    /\ pc[LoopTask] = "cycle"
    /\ \/ RunOptSucceed(LoopTask)
       \/ RunOptFail(LoopTask)
    /\ pc' = [pc EXCEPT ![LoopTask] = AfterCycle(call'[LoopTask])]
    /\ UNCHANGED <<cfgfile, config, phase, data_fetcher, rpc_url, response,
                   cancel_requested, opt, calc, cycle>>

\* asyncio.sleep returns (either sleep); the loop tests the flag again
run_continuous_wake ==
    /\ pc[LoopTask] \in {"sleep", "backoff"}
    /\ LoopIterate
    /\ UNCHANGED <<cfgfile, config, phase, data_fetcher, rpc_url, response,
                   cancel_requested, opt, calc, cycle>>

\* Where a CancelledError thrown into the suspended task ends up.
\* CancelledError is not an Exception, so run_optimization's handler lets it
\* through; "except asyncio.CancelledError: break" covers the try body (the
\* cycle and the inter-cycle sleep) but not the back-off sleep, which is
\* awaited inside the "except Exception" handler.
OnCancel(at) == IF at = "backoff" THEN "raised" ELSE "returned"

\* the continuous task is cancelled while suspended
cancel ==
    /\ pc[LoopTask] \in {"cycle", "sleep", "backoff"}
    /\ ~cancel_requested
    /\ cancel_requested' = TRUE
    /\ pc' = [pc EXCEPT ![LoopTask] = OnCancel(pc[LoopTask])]
    /\ call' = [call EXCEPT ![LoopTask] = IF pc[LoopTask] = "cycle" THEN "cancelled" ELSE @]
    /\ UNCHANGED <<cfgfile, config, phase, data_fetcher, rpc_url, state, last_result,
                   clock, response, published, opt, calc, cycle>>

\* API mode (main.py --mode api): the lifespan and the request handlers
Next ==
    \/ initialize
    \/ shutdown
    \/ \E p \in ApiTasks : optimize_portfolio(p)
    \/ \E p \in ApiTasks : optimize_portfolio_resume(p)
    \/ \E p \in ApiTasks : get_risk_analysis(p)
    \/ \E p \in ApiTasks : get_risk_analysis_resume(p)
    \/ \E p \in ApiTasks : health_check(p)
    \/ \E p \in ApiTasks : get_efficient_frontier(p)
    \/ \E p \in ApiTasks : get_efficient_frontier_resume(p)
    \/ \E p \in ApiTasks, m \in AllocInputs : update_allocation(p, m)
    \/ \E p \in ApiTasks, m \in AllocInputs : call_update_allocations(p, m)
    \/ \E p \in ApiTasks : Respond(p)

Spec == Init /\ [][Next]_vars

\* Continuous mode (main.py --mode continuous): the loop task, which may be
\* cancelled, and the agent's lifecycle
NextContinuous ==
    \/ initialize
    \/ shutdown
    \/ run_continuous
    \/ run_continuous_resume
    \/ run_continuous_wake
    \/ cancel

SpecContinuous == Init /\ [][NextContinuous]_vars

\* The event loop resumes a task whose sleep has elapsed.
FairContinuous == SpecContinuous /\ WF_vars(run_continuous_wake)

(***************************************************************************)
(* Part 2.  PortfolioRebalancer.optimize.                                  *)
(*                                                                         *)
(* Weights and bounds are exact rationals.  A bound is an integer number   *)
(* of 1/Scale; a weight vector is [num, den], weight i being               *)
(* (num[i]/Scale) / (den/Scale) = num[i]/den, so that the division by      *)
(* x0.sum() is exact.  scipy's SLSQP is not part of the repository: a      *)
(* solve either reports success with a point that satisfies the bounds     *)
(* and constraints it was given, or reports failure.                       *)
(***************************************************************************)
Scale == 2 * 2 * 3 * 5     \* the weight 1.0; divisible by every strategy count explored
Grid == Scale \div 10      \* solver results are explored on the 0.1 grid

\* The strategies that may pass the filter: the three of the default
\* configuration with their configured bounds, and one the configuration
\* does not list ("allocation_limits.get(id, (0.0, 1.0))").
\* A strategy name: the string and the words str.split() finds in it.
Name(str, words) == [str |-> str, words |-> words]
NativeStaking == Name("Native Staking", <<"Native", "Staking">>)
LendingProtocol == Name("Lending Protocol", <<"Lending", "Protocol">>)
LiquidityProvision == Name("Liquidity Provision", <<"Liquidity", "Provision">>)
LendingPool == Name("Lending Pool", <<"Lending", "Pool">>)
StakingPool == Name("staking pool", <<"staking", "pool">>)
EmptyName == Name("", <<>>)
BlankName == Name(" ", <<>>)

\* vol is the annualised volatility in tenths, expected_return the APY in
\* percent (the three mock strategies yield 8%, 12% and 25%).
StrategyChoices ==
    << [id |-> "staking",  min_allocation |-> 6, max_allocation |-> 30, vol |-> 1,
        expected_return |-> 8, name |-> NativeStaking],
       [id |-> "lending",  min_allocation |-> 0, max_allocation |-> 24, vol |-> 1,
        expected_return |-> 12, name |-> LendingProtocol],
       [id |-> "lp",       min_allocation |-> 0, max_allocation |-> 18, vol |-> 2,
        expected_return |-> 25, name |-> LiquidityProvision],
       [id |-> "unlisted", min_allocation |-> 0, max_allocation |-> 60, vol |-> 3,
        expected_return |-> 16, name |-> LendingPool] >>

Objectives == {"max_sharpe", "min_variance", "risk_parity", "mean_variance"}
Methods == Objectives \cup {"other"}

RECURSIVE SeqSum(_)
SeqSum(q) == IF q = <<>> THEN 0 ELSE Head(q) + SeqSum(Tail(q))

\* the sub-sequence of q at the positions in keep, in order
RECURSIVE SelectAt(_, _, _)
SelectAt(q, keep, i) ==
    IF i > Len(q) THEN <<>>
    ELSE (IF i \in keep THEN <<q[i]>> ELSE <<>>) \o SelectAt(q, keep, i + 1)

StrategyLists == { SelectAt(StrategyChoices, keep, 1) : keep \in SUBSET (1..Len(StrategyChoices)) }

\* np.clip
Clip(x, lo, hi) == IF x < lo THEN lo ELSE IF x > hi THEN hi ELSE x

\* x0 = np.ones(n) / n; x0 = np.clip(x0, min, max); x0 = x0 / x0.sum()
EqualWeightStart(strategies) ==
    LET n == Len(strategies)
        clipped == [i \in 1..n |->
                      Clip(Scale \div n, strategies[i].min_allocation,
                           strategies[i].max_allocation)]
    IN  [num |-> clipped, den |-> SeqSum(clipped)]

\* x0 = 1 / volatilities; x0 = np.clip(x0, min, max); x0 = x0 / x0.sum()
InverseVolStart(strategies) ==
    LET n == Len(strategies)
        clipped == [i \in 1..n |->
                      Clip((Scale * 10) \div strategies[i].vol,
                           strategies[i].min_allocation,
                           strategies[i].max_allocation)]
    IN  [num |-> clipped, den |-> SeqSum(clipped)]

\* the points of the grid that satisfy Bounds(min, max) and sum(w) = 1
FeasiblePoints(strategies) ==
    LET n == Len(strategies)
    IN  { w \in [1..n -> {k * Grid : k \in 0..(Scale \div Grid)}] :
            /\ \A i \in 1..n : /\ strategies[i].min_allocation <= w[i]
                               /\ w[i] <= strategies[i].max_allocation
            /\ SeqSum(w) = Scale }

NoSolution == [success |-> FALSE, x |-> <<>>]

\* what scipy.optimize.minimize may return for these bounds
SolverOutcomes(strategies) ==
    {NoSolution} \cup { [success |-> TRUE, x |-> w] : w \in FeasiblePoints(strategies) }

\* "if result.success: return result.x  else: ... return x0"
_optimize_max_sharpe(strategies, sol) ==
    IF sol.success THEN [num |-> sol.x, den |-> Scale] ELSE EqualWeightStart(strategies)

_optimize_min_variance(strategies, sol) ==
    IF sol.success THEN [num |-> sol.x, den |-> Scale] ELSE EqualWeightStart(strategies)

_optimize_risk_parity(strategies, sol) ==
    IF sol.success THEN [num |-> sol.x, den |-> Scale] ELSE InverseVolStart(strategies)

\* on failure falls back to _optimize_max_sharpe, which runs a solve of its own
_optimize_mean_variance(strategies, sol, sol2) ==
    IF sol.success THEN [num |-> sol.x, den |-> Scale]
    ELSE _optimize_max_sharpe(strategies, sol2)

NoWeights == [num |-> <<>>, den |-> Scale]

\* optimize(): the weights it returns (n = 0 returns an empty allocation)
optimize(strategies, method, sol, sol2) ==
    IF Len(strategies) = 0 THEN NoWeights
    ELSE CASE method = "max_sharpe"    -> _optimize_max_sharpe(strategies, sol)
           [] method = "min_variance"  -> _optimize_min_variance(strategies, sol)
           [] method = "risk_parity"   -> _optimize_risk_parity(strategies, sol)
           [] method = "mean_variance" -> _optimize_mean_variance(strategies, sol, sol2)
           [] OTHER                    -> EqualWeightStart(strategies)

\* whether the weights returned are the solver's
Converged(strategies, method, sol, sol2) ==
    /\ Len(strategies) > 0
    /\ method \in Objectives
    /\ sol.success \/ (method = "mean_variance" /\ sol2.success)

AgentIdle ==
    /\ cfgfile = "complete"
    /\ config = _load_config(cfgfile)
    /\ phase = "constructed"
    /\ data_fetcher = FALSE
    /\ rpc_url = "unset"
    /\ state = AgentStateInit
    /\ last_result = NoResult
    /\ clock = 1
    /\ pc = [p \in Tasks |-> "idle"]
    /\ call = [p \in Tasks |-> "none"]
    /\ response = [p \in Tasks |-> NoResponse]
    /\ cancel_requested = FALSE
    /\ published = {NoSnapshot}

\* the optimizer is handed any list of included strategies and any method
InitOptimize ==
    /\ AgentIdle
    /\ calc = CalcIdle
    /\ cycle = CycleIdle
    /\ \E strategies \in StrategyLists, method \in Methods :
         opt = [stage |-> "input", strategies |-> strategies, method |-> method,
                success |-> FALSE, converged |-> FALSE, weights |-> NoWeights]

\* one call of optimize()
Optimize ==
    /\ opt.stage = "input"
    /\ \E sol \in SolverOutcomes(opt.strategies), sol2 \in SolverOutcomes(opt.strategies) :
         opt' = [opt EXCEPT !.stage = "done",
                            !.success = sol.success,
                            !.converged = Converged(opt.strategies, opt.method, sol, sol2),
                            !.weights = optimize(opt.strategies, opt.method, sol, sol2)]
    /\ UNCHANGED <<agentVars, calc, cycle>>

NextOptimize == Optimize

SpecOptimize == InitOptimize /\ [][NextOptimize]_vars

(***************************************************************************)
(* Part 3.  The other computations of PortfolioRebalancer, DataProcessor   *)
(* and RiskAnalyzer, each studied on its own: calc holds the input, then   *)
(* the output.                                                             *)
(***************************************************************************)
NoOtherPart ==
    /\ AgentIdle
    /\ opt = OptIdle
    /\ cycle = CycleIdle

\* np.dot(weights, returns) as the rational num/den (in percent)
PortfolioReturn(strategies, w) ==
    [num |-> SeqSum([i \in 1..Len(strategies) |-> w.num[i] * strategies[i].expected_return]),
     den |-> w.den]

RECURSIVE SeqMin(_)
SeqMin(q) == IF Len(q) = 1 THEN Head(q)
             ELSE LET m == SeqMin(Tail(q)) IN IF Head(q) < m THEN Head(q) ELSE m

RECURSIVE SeqMax(_)
SeqMax(q) == IF Len(q) = 1 THEN Head(q)
             ELSE LET m == SeqMax(Tail(q)) IN IF Head(q) > m THEN Head(q) ELSE m

Returns(strategies) == [i \in 1..Len(strategies) |-> strategies[i].expected_return]

\* floor of the square root, by bisection on lo <= sqrt(x) < hi
RECURSIVE ISqrtIn(_, _, _)
ISqrtIn(x, lo, hi) ==
    IF hi - lo <= 1 THEN lo
    ELSE LET mid == (lo + hi) \div 2
         IN  IF mid * mid <= x THEN ISqrtIn(x, mid, hi) ELSE ISqrtIn(x, lo, mid)

\* np.sqrt on fixed-point values
ISqrt(x) == ISqrtIn(x, 0, 2 ^ 15)

Abs(x) == IF x < 0 THEN -x ELSE x

(***************************************************************************)
(* DataProcessor.build_correlation_matrix.                                 *)
(* A correlation is a number of hundredths (100 = 1.0) or NaN.             *)
(***************************************************************************)
Corr(v) == [nan |-> FALSE, v |-> v]
NaN == [nan |-> TRUE, v |-> 0]

\* n * sum(x*y) - sum(x) * sum(y): n times the co-moment of two series
CoMoment(x, y) ==
    Len(x) * SeqSum([t \in 1..Len(x) |-> x[t] * y[t]]) - SeqSum(x) * SeqSum(y)

\* DataFrame.corr() for two aligned series: Pearson's r, which is NaN when
\* either series has no variance (the division is 0/0)
PearsonCorr(x, y) ==
    LET sxy == CoMoment(x, y)
        sxx == CoMoment(x, x)
        syy == CoMoment(y, y)
    IN  IF sxx * syy = 0 THEN NaN
        ELSE Corr((100 * sxy) \div ISqrt(sxx * syy))

\* name.split()[0]: IndexError on a name without a word
HasFirstWord(name) == Len(name.words) > 0
FirstWord(name) == Head(name.words)

\* the assumed correlations: np.eye(n), then 0.7 for strategies whose names
\* start with the same word and 0.3 for the others
HeuristicCorrelation(strategies) ==
    [i \in 1..Len(strategies) |-> [j \in 1..Len(strategies) |->
        IF i = j THEN Corr(100)
        ELSE IF FirstWord(strategies[i].name) = FirstWord(strategies[j].name)
             THEN Corr(70) ELSE Corr(30)]]

\* "historical_data and len(historical_data) == n"; historical_data is None
\* (<<>>) or the sequence of the strategies' return series
UsesHistory(strategies, historical_data) ==
    /\ Len(historical_data) > 0
    /\ Len(historical_data) = Len(strategies)

\* build_correlation_matrix: raised, or the matrix returned
build_correlation_matrix(strategies, historical_data) ==
    IF UsesHistory(strategies, historical_data)
    THEN [raised |-> FALSE,
          matrix |-> [i \in 1..Len(strategies) |-> [j \in 1..Len(strategies) |->
                        PearsonCorr(historical_data[i], historical_data[j])]]]
    ELSE IF Len(strategies) > 1 /\ \E i \in 1..Len(strategies) : ~HasFirstWord(strategies[i].name)
    THEN [raised |-> TRUE, matrix |-> <<>>]
    ELSE [raised |-> FALSE, matrix |-> HeuristicCorrelation(strategies)]

\* strategies as build_correlation_matrix sees them: id and name
CorrStrategyChoices ==
    << [id |-> "staking", name |-> NativeStaking],
       [id |-> "lending", name |-> LendingProtocol],
       [id |-> "pool",    name |-> LendingPool],
       [id |-> "unnamed", name |-> EmptyName] >>

CorrStrategyLists ==
    { SelectAt(CorrStrategyChoices, keep, 1) :
        keep \in { k \in SUBSET (1..Len(CorrStrategyChoices)) : Cardinality(k) <= 3 } }

\* daily return series of three observations
ReturnSeries == { <<1, 1, 1>>, <<0, 1, 2>>, <<2, 1, 0>>, <<0, 2, 1>> }

\* historical_data: None, or one series per strategy
HistoryChoices(strategies) ==
    {<<>>} \cup [1..Len(strategies) -> ReturnSeries]

InitCorrelation ==
    /\ NoOtherPart
    /\ \E strategies \in CorrStrategyLists :
         \E historical_data \in HistoryChoices(strategies) :
            calc = [stage |-> "correlation_input", strategies |-> strategies,
                    historical_data |-> historical_data,
                    raised |-> FALSE, matrix |-> <<>>]

BuildCorrelation ==
    /\ calc.stage = "correlation_input"
    /\ LET out == build_correlation_matrix(calc.strategies, calc.historical_data)
       IN  calc' = [calc EXCEPT !.stage = "correlation", !.raised = out.raised,
                                !.matrix = out.matrix]
    /\ UNCHANGED <<agentVars, opt, cycle>>

NextCorrelation == BuildCorrelation

SpecCorrelation == InitCorrelation /\ [][NextCorrelation]_vars

(***************************************************************************)
(* Portfolio metrics and rebalancing.  A return is a rational num/den in   *)
(* percent; a volatility is in basis points and a Sharpe ratio in          *)
(* thousandths, both truncated (fixed point standing for the floats).      *)
(* An allocation map (current_allocations, a target) is a set of           *)
(* <<id, weight in percent>> pairs.                                        *)
(***************************************************************************)
\* self.risk_config.get("risk_free_rate", 0.02), in percent
risk_free_rate == 2

\* self.optimization_config.get("min_rebalance_threshold", 0.05), in percent
min_rebalance_threshold == 5

\* dict.get(id, 0) on an allocation map
Get(m, id) ==
    IF \E e \in m : e[1] = id THEN (CHOOSE e \in m : e[1] = id)[2] ELSE 0

Keys(m) == { e[1] : e \in m }

\* np.dot(weights, np.dot(cov_matrix, weights)) * den^2 * 10^4 where
\* cov_matrix = np.outer(volatilities, volatilities) * correlation
PortfolioVariance(strategies, w, correlation) ==
    SeqSum([i \in 1..Len(strategies) |->
        SeqSum([j \in 1..Len(strategies) |->
            w.num[i] * w.num[j] * strategies[i].vol * strategies[j].vol
              * correlation[i][j].v])])

\* np.sqrt(portfolio_variance), in basis points
PortfolioVolatility(strategies, w, correlation) ==
    (100 * ISqrt(PortfolioVariance(strategies, w, correlation))) \div w.den

\* (portfolio_return - risk_free_rate) / portfolio_volatility
\* if portfolio_volatility > 0 else 0, in thousandths
SharpeRatio(strategies, w, correlation, rf) ==
    LET root == ISqrt(PortfolioVariance(strategies, w, correlation))
    IN  IF root > 0
        THEN ((PortfolioReturn(strategies, w).num - rf * w.den) * 1000) \div root
        ELSE 0

\* optimize(): the AllocationResult built from the weights
AllocationResult(strategies, correlation, rf, method, w) ==
    IF Len(strategies) = 0
    THEN [strategy_allocations |-> NoWeights, expected_return |-> [num |-> 0, den |-> 1],
          expected_volatility |-> 0, sharpe_ratio |-> 0, optimization_method |-> method]
    ELSE [strategy_allocations |-> w,
          expected_return |-> PortfolioReturn(strategies, w),
          expected_volatility |-> PortfolioVolatility(strategies, w, correlation),
          sharpe_ratio |-> SharpeRatio(strategies, w, correlation, rf),
          optimization_method |-> method]

\* faulty variant: a difference equal to the threshold is traded too
ExceedsThreshold_Inclusive(weight_change, threshold) ==
    Abs(weight_change.num) * 100 >= threshold * weight_change.den

\* "abs(diff) > threshold" for a weight change num/den
ExceedsThreshold(weight_change, threshold) ==
    Abs(weight_change.num) * 100 > threshold * weight_change.den

Action(weight_change) == IF weight_change.num > 0 THEN "increase" ELSE "decrease"

Trade(strategy_id, weight_change) ==
    [strategy_id |-> strategy_id, action |-> Action(weight_change),
     weight_change |-> weight_change]

\* the sort key (action == "increase", -abs(weight_change)) of a is not
\* greater than that of b
KeyNotGreater(a, b) ==
    \/ a.action = "decrease" /\ b.action = "increase"
    \/ /\ a.action = b.action
       /\ Abs(a.weight_change.num) * b.weight_change.den
            >= Abs(b.weight_change.num) * a.weight_change.den

RECURSIVE InsertTrade(_, _)
InsertTrade(sorted, t) ==
    IF sorted = <<>> THEN <<t>>
    ELSE IF KeyNotGreater(Head(sorted), t)
         THEN <<Head(sorted)>> \o InsertTrade(Tail(sorted), t)
         ELSE <<t>> \o sorted

RECURSIVE SortInto(_, _)
SortInto(sorted, trades) ==
    IF trades = <<>> THEN sorted
    ELSE SortInto(InsertTrade(sorted, Head(trades)), Tail(trades))

\* faulty variant: the list is left in the order it was built
SortTrades_Unsorted(trades) == trades

\* trades.sort(key=...): a stable sort
SortTrades(trades) == SortInto(<<>>, trades)

\* the trades appended for the ids in order from position i on; current and
\* target give each id's weight as a rational of denominator den
RECURSIVE TradesFrom(_, _, _, _, _, _)
TradesFrom(ids, i, current, target, den, threshold) ==
    IF i > Len(ids) THEN <<>>
    ELSE LET diff == [num |-> target[i] - current[i], den |-> den]
         IN  (IF ExceedsThreshold(diff, threshold) THEN <<Trade(ids[i], diff)>> ELSE <<>>)
             \o TradesFrom(ids, i + 1, current, target, den, threshold)

\* faulty variant: any improvement counts, also without a trade to make
ShouldRebalance_IgnoresTrades(trades, improvement) ==
    \/ improvement.sharpe_improvement > 50
    \/ improvement.return_improvement.num > improvement.return_improvement.den

\* len(trades) > 0 and (sharpe_improvement > 0.05 or return_improvement > 0.01)
ShouldRebalance(trades, improvement) ==
    /\ Len(trades) > 0
    /\ \/ improvement.sharpe_improvement > 50
       \/ improvement.return_improvement.num > improvement.return_improvement.den

NoImprovement ==
    [return_improvement |-> [num |-> 0, den |-> 1], volatility_change |-> 0,
     sharpe_improvement |-> 0]

\* recommend_rebalance.  The target is optimize() called without a method,
\* that is with the configured one.
recommend_rebalance(current_allocations, strategies, correlation, rf, method, sol, sol2) ==
    LET n == Len(strategies)
        optimal == AllocationResult(strategies, correlation, rf, method,
                                    optimize(strategies, method, sol, sol2))
        target == optimal.strategy_allocations
    IN  IF n = 0
        THEN [current_allocations |-> current_allocations,
              target_allocations |-> NoWeights, trades |-> <<>>,
              expected_improvement |-> NoImprovement, should_rebalance |-> FALSE]
        ELSE
        LET held == [i \in 1..n |-> Get(current_allocations, strategies[i].id)]
            total == SeqSum(held)
            current_weights == [num |-> held, den |-> total]
            current_return == IF total > 0 THEN PortfolioReturn(strategies, current_weights)
                              ELSE [num |-> 0, den |-> 1]
            current_vol == IF total > 0
                           THEN PortfolioVolatility(strategies, current_weights, correlation)
                           ELSE 0
            current_sharpe == IF total > 0
                              THEN SharpeRatio(strategies, current_weights, correlation, rf)
                              ELSE 0
            improvement ==
                [return_improvement |->
                    [num |-> optimal.expected_return.num * current_return.den
                               - current_return.num * optimal.expected_return.den,
                     den |-> optimal.expected_return.den * current_return.den],
                 volatility_change |-> optimal.expected_volatility - current_vol,
                 sharpe_improvement |-> optimal.sharpe_ratio - current_sharpe]
            trades == SortTrades(
                TradesFrom([i \in 1..n |-> strategies[i].id], 1,
                           [i \in 1..n |-> held[i] * target.den],
                           [i \in 1..n |-> 100 * target.num[i]],
                           100 * target.den, min_rebalance_threshold))
        IN  [current_allocations |-> current_allocations,
             target_allocations |-> target, trades |-> trades,
             expected_improvement |-> improvement,
             should_rebalance |-> ShouldRebalance(trades, improvement)]

\* DataProcessor.calculate_rebalance_trades; order is the order in which the
\* set of all ids happens to be iterated
calculate_rebalance_trades(current, target, order) ==
    SortTrades(
        TradesFrom(order, 1,
                   [i \in 1..Len(order) |-> Get(current, order[i])],
                   [i \in 1..Len(order) |-> Get(target, order[i])],
                   100, min_rebalance_threshold))

\* the orders in which a set may be iterated
Orders(S) ==
    { q \in [1..Cardinality(S) -> S] : \A i, j \in 1..Cardinality(S) : q[i] = q[j] => i = j }

\* strategies of a configuration that sets bounds for lp only
RebalanceStrategyChoices ==
    << [id |-> "staking",  min_allocation |-> 0, max_allocation |-> Scale, vol |-> 1,
        expected_return |-> 8, name |-> NativeStaking],
       [id |-> "lending",  min_allocation |-> 0, max_allocation |-> Scale, vol |-> 1,
        expected_return |-> 12, name |-> LendingProtocol],
       [id |-> "lp",       min_allocation |-> 0, max_allocation |-> 18, vol |-> 2,
        expected_return |-> 25, name |-> LiquidityProvision] >>

RebalanceStrategyLists ==
    { SelectAt(RebalanceStrategyChoices, keep, 1) :
        keep \in SUBSET (1..Len(RebalanceStrategyChoices)) }

\* current allocations explored
CurrentChoices ==
    { {},
      {<<"staking", 100>>},
      {<<"staking", 50>>, <<"lending", 50>>},
      {<<"staking", 35>>, <<"lending", 65>>},
      {<<"staking", 45>>, <<"lending", 50>>, <<"lp", 5>>},
      {<<"lp", 100>>} }

\* targets handed to calculate_rebalance_trades
TargetChoices ==
    { {},
      {<<"staking", 50>>, <<"lending", 50>>},
      {<<"staking", 30>>, <<"lending", 60>>, <<"lp", 10>>},
      {<<"lending", 100>>} }

InitRebalance ==
    /\ NoOtherPart
    /\ \E strategies \in RebalanceStrategyLists, current \in CurrentChoices,
          method \in Methods :
         calc = [stage |-> "rebalance_input", strategies |-> strategies,
                 current |-> current, method |-> method,
                 target |-> {}, trades |-> <<>>,
                 expected_improvement |-> NoImprovement, should_rebalance |-> FALSE]

\* one call of recommend_rebalance
RecommendRebalance ==
    /\ calc.stage = "rebalance_input"
    /\ \E sol \in SolverOutcomes(calc.strategies), sol2 \in SolverOutcomes(calc.strategies) :
         LET rec == recommend_rebalance(calc.current, calc.strategies,
                                        HeuristicCorrelation(calc.strategies),
                                        risk_free_rate, calc.method, sol, sol2)
         IN  calc' = [calc EXCEPT !.stage = "recommended",
                                  !.target = rec.target_allocations,
                                  !.trades = rec.trades,
                                  !.expected_improvement = rec.expected_improvement,
                                  !.should_rebalance = rec.should_rebalance]
    /\ UNCHANGED <<agentVars, opt, cycle>>

\* one call of calculate_rebalance_trades
CalculateRebalanceTrades ==
    /\ calc.stage = "rebalance_input"
    /\ \E target \in TargetChoices :
         \E order \in Orders(Keys(calc.current) \cup Keys(target)) :
            calc' = [calc EXCEPT !.stage = "calculated",
                                 !.target = target,
                                 !.trades = calculate_rebalance_trades(calc.current, target, order)]
    /\ UNCHANGED <<agentVars, opt, cycle>>

NextRebalance ==
    \/ RecommendRebalance
    \/ CalculateRebalanceTrades

SpecRebalance == InitRebalance /\ [][NextRebalance]_vars

(***************************************************************************)
(* RiskAnalyzer.  Scores are in hundredths of a point (2500 = 25 points);  *)
(* volatility and expected_return in percent, risk_score as the raw 0..100 *)
(* value (the normalised score is risk_score/100), tvl_score and age_score *)
(* in hundredths.                                                          *)
(***************************************************************************)
Min(a, b) == IF a < b THEN a ELSE b

\* min(25, volatility * 50)
_calculate_volatility_risk(volatility) == Min(25 * 100, volatility * 50)

\* str.lower() on the first words that occur
Lower(word) ==
    CASE word = "Native" -> "native"
      [] word = "Lending" -> "lending"
      [] word = "Liquidity" -> "liquidity"
      [] word = "Staking" -> "staking"
      [] OTHER -> word

\* "strategy.name.lower().split()[0] if strategy.name else 'unknown'"
InfersType(name) == name.str = "" \/ HasFirstWord(name)
strategy_type(name) == IF name.str = "" THEN "unknown" ELSE Lower(FirstWord(name))

\* type_multipliers.get(strategy_type, 1.0), in tenths
type_multiplier(type) ==
    CASE type = "staking" -> 6
      [] type = "lending" -> 8
      [] type = "liquidity" -> 10
      [] OTHER -> 10

\* 25 * (1 - age_score) * multiplier
_calculate_smart_contract_risk(strategy) ==
    (25 * (100 - strategy.age_score) * type_multiplier(strategy_type(strategy.name))) \div 10

\* 25 * (1 - tvl_score)
_calculate_liquidity_risk(tvl_score) == 25 * (100 - tvl_score)

\* risk_score * 25, plus 5 above 50% APY or 2 above 30% APY, capped at 25
_calculate_strategy_specific_risk(strategy) ==
    LET base_risk == strategy.risk_score * 25
        adjusted == IF strategy.expected_return > 50 THEN base_risk + 5 * 100
                    ELSE IF strategy.expected_return > 30 THEN base_risk + 2 * 100
                    ELSE base_risk
    IN  Min(25 * 100, adjusted)

\* the level of a score: fixed thresholds 25, 50, 75
_get_risk_level(risk_score) ==
    IF risk_score < 25 * 100 THEN "low"
    ELSE IF risk_score < 50 * 100 THEN "medium"
    ELSE IF risk_score < 75 * 100 THEN "high"
    ELSE "very_high"

\* assess_strategy_risk: the components, their sum and the level
assess_strategy_risk(strategy) ==
    LET components ==
            [volatility_risk |-> _calculate_volatility_risk(strategy.volatility),
             smart_contract_risk |-> _calculate_smart_contract_risk(strategy),
             liquidity_risk |-> _calculate_liquidity_risk(strategy.tvl_score),
             strategy_specific_risk |-> _calculate_strategy_specific_risk(strategy)]
        overall_risk == components.volatility_risk + components.smart_contract_risk
                        + components.liquidity_risk + components.strategy_specific_risk
    IN  [components |-> components,
         overall_risk_score |-> overall_risk,
         risk_level |-> _get_risk_level(overall_risk)]

\* np.sum(weights ** 2) * den^2
SumSquares(w) == SeqSum([i \in 1..Len(w.num) |-> w.num[i] * w.num[i]])

\* sum over i < j of weights[i] * weights[j] * correlation_matrix[i, j],
\* times den^2 * 100
PairSum(w, correlation) ==
    SeqSum([i \in 1..Len(w.num) |->
        SeqSum([j \in 1..Len(w.num) |->
            IF i < j THEN w.num[i] * w.num[j] * correlation[i][j].v ELSE 0])])

\* concentration_risk * 20, in hundredths of a point
concentration_penalty(w) == (20 * 100 * SumSquares(w)) \div (w.den * w.den)

\* correlation_risk * 10, in hundredths of a point; correlation_risk is the
\* pair sum over (1 - concentration_risk) when n > 1 and concentration < 1
correlation_penalty(w, correlation) ==
    IF Len(w.num) > 1 /\ SumSquares(w) < w.den * w.den
    THEN (10 * PairSum(w, correlation)) \div (w.den * w.den - SumSquares(w))
    ELSE 0

\* faulty variant: the portfolio score is not capped
PortfolioScore_Uncapped(strategy_risks, w, correlation) ==
    (SeqSum([i \in 1..Len(w.num) |-> w.num[i] * strategy_risks[i].overall_risk_score])
        \div w.den)
    + concentration_penalty(w) + correlation_penalty(w, correlation)

\* min(100, weighted_strategy_risk + concentration_penalty + correlation_penalty)
PortfolioScore(strategy_risks, w, correlation) ==
    Min(100 * 100,
        (SeqSum([i \in 1..Len(w.num) |-> w.num[i] * strategy_risks[i].overall_risk_score])
            \div w.den)
        + concentration_penalty(w) + correlation_penalty(w, correlation))

\* assess_portfolio_risk: the per-strategy assessments, the score, the level
assess_portfolio_risk(strategies, w, correlation) ==
    LET strategy_risks == [i \in 1..Len(strategies) |-> assess_strategy_risk(strategies[i])]
        overall_risk == PortfolioScore(strategy_risks, w, correlation)
    IN  [strategy_risks |-> strategy_risks,
         overall_risk_score |-> overall_risk,
         risk_level |-> _get_risk_level(overall_risk)]

\* the normalised strategies explored one at a time
RiskVolatilities == {0, 10, 49, 50, 60}
RiskScores == {0, 40, 100}
RiskTvlScores == {0, 50, 100}
RiskAgeScores == {0, 50, 75, 100}
RiskReturns == {0 - 5, 8, 35, 60}
RiskNames == {NativeStaking, LendingProtocol, StakingPool, LiquidityProvision,
              EmptyName, BlankName}

RiskStrategy(name, volatility, risk_score, tvl_score, age_score, expected_return) ==
    [name |-> name, volatility |-> volatility, risk_score |-> risk_score,
     tvl_score |-> tvl_score, age_score |-> age_score, expected_return |-> expected_return]

\* the strategies portfolios are made of: riskless, the three mock
\* strategies as normalised, and the riskiest possible
RiskPortfolioChoices ==
    << RiskStrategy(StakingPool, 0, 0, 100, 100, 8),
       RiskStrategy(LendingProtocol, 10, 40, 100, 100, 12),
       RiskStrategy(LiquidityProvision, 20, 60, 100, 75, 25),
       RiskStrategy(EmptyName, 60, 100, 0, 0, 60) >>

RiskPortfolioLists ==
    { SelectAt(RiskPortfolioChoices, keep, 1) :
        keep \in { k \in SUBSET (1..Len(RiskPortfolioChoices)) : Cardinality(k) <= 3 } }

\* weight vectors on the grid: non-negative, summing to 1
GridWeights(n) ==
    { w \in [1..n -> {k * Grid : k \in 0..(Scale \div Grid)}] : SeqSum(w) = Scale }

\* a matrix with one value off the diagonal
UniformCorrelation(n, c) ==
    [i \in 1..n |-> [j \in 1..n |-> IF i = j THEN Corr(100) ELSE Corr(c)]]

\* the correlation matrices explored: the assumed ones and, for series
\* that move against each other, -0.5 off the diagonal
RiskCorrelations(strategies) ==
    {UniformCorrelation(Len(strategies), 30), UniformCorrelation(Len(strategies), 70),
     UniformCorrelation(Len(strategies), 0 - 50)}

NoAssessment == [kind |-> "none"]

InitRisk ==
    /\ NoOtherPart
    /\ \/ \E name \in RiskNames, volatility \in RiskVolatilities, risk_score \in RiskScores,
              tvl_score \in RiskTvlScores, age_score \in RiskAgeScores,
              expected_return \in RiskReturns :
              calc = [stage |-> "strategy_input",
                      strategy |-> RiskStrategy(name, volatility, risk_score, tvl_score,
                                                age_score, expected_return),
                      raised |-> FALSE, assessment |-> NoAssessment]
       \/ \E strategies \in RiskPortfolioLists :
              \E w \in GridWeights(Len(strategies)),
                 correlation \in RiskCorrelations(strategies) :
                 calc = [stage |-> "portfolio_input", strategies |-> strategies,
                         weights |-> [num |-> w, den |-> Scale],
                         correlation |-> correlation,
                         raised |-> FALSE, assessment |-> NoAssessment]

\* one call of assess_strategy_risk; a name of blanks only raises IndexError
AssessStrategy ==
    /\ calc.stage = "strategy_input"
    /\ IF InfersType(calc.strategy.name)
       THEN calc' = [calc EXCEPT !.stage = "strategy",
                                 !.assessment = assess_strategy_risk(calc.strategy)]
       ELSE calc' = [calc EXCEPT !.stage = "strategy", !.raised = TRUE]
    /\ UNCHANGED <<agentVars, opt, cycle>>

\* one call of assess_portfolio_risk
AssessPortfolio ==
    /\ calc.stage = "portfolio_input"
    /\ IF \A i \in 1..Len(calc.strategies) : InfersType(calc.strategies[i].name)
       THEN calc' = [calc EXCEPT !.stage = "portfolio",
                        !.assessment = assess_portfolio_risk(calc.strategies, calc.weights,
                                                             calc.correlation)]
       ELSE calc' = [calc EXCEPT !.stage = "portfolio", !.raised = TRUE]
    /\ UNCHANGED <<agentVars, opt, cycle>>

NextRisk ==
    \/ AssessStrategy
    \/ AssessPortfolio

SpecRisk == InitRisk /\ [][NextRisk]_vars

(***************************************************************************)
(* generate_efficient_frontier.                                            *)
(***************************************************************************)
\* a strategy whose configured bounds are inverted, besides the usual ones
FrontierStrategyChoices ==
    StrategyChoices \o
    << [id |-> "misconfigured", min_allocation |-> 30, max_allocation |-> 18, vol |-> 1,
        expected_return |-> 10, name |-> Name("Misconfigured", <<"Misconfigured">>)] >>

\* lists of at most three strategies
FrontierStrategyLists ==
    { SelectAt(FrontierStrategyChoices, keep, 1) :
        keep \in { k \in SUBSET (1..Len(FrontierStrategyChoices)) : Cardinality(k) <= 3 } }

NumPointsChoices == {1, 3, 5}

\* np.linspace(min_return, max_return, num_points)[k - 1] as a rational
TargetReturn(strategies, num_points, k) ==
    LET lo == SeqMin(Returns(strategies))
        hi == SeqMax(Returns(strategies))
    IN  IF num_points = 1 THEN [num |-> lo, den |-> 1]
        ELSE [num |-> lo * (num_points - 1) + (hi - lo) * (k - 1), den |-> num_points - 1]

\* minimize() refuses bounds with lb > ub: it raises instead of returning
SolveRaises(strategies) ==
    \E i \in 1..Len(strategies) :
        strategies[i].min_allocation > strategies[i].max_allocation

\* what the mean-variance solve may return for a target: failure, or a point
\* within the bounds that sums to 1 and has exactly the target return
TargetSolverOutcomes(strategies, target) ==
    {NoSolution} \cup
    { [success |-> TRUE, x |-> w] :
        w \in { v \in FeasiblePoints(strategies) :
                  PortfolioReturn(strategies, [num |-> v, den |-> Scale]).num * target.den
                    = Scale * target.num } }

\* the entry appended for one target; solved records how its solve ended
FrontierPoint(strategies, k, sol, sol2) ==
    [target |-> k, solved |-> sol.success,
     return |-> PortfolioReturn(strategies, _optimize_mean_variance(strategies, sol, sol2))]

\* the body of the loop for target k: the entries it may append.  The
\* fallback solve has the same arguments for every target, hence one sol2.
FrontierPointChoices(strategies, num_points, k, sol2) ==
    { FrontierPoint(strategies, k, sol, sol2) :
        sol \in TargetSolverOutcomes(strategies, TargetReturn(strategies, num_points, k)) }

RECURSIVE FrontierFrom(_, _, _, _)
FrontierFrom(strategies, num_points, k, sol2) ==
    IF k > num_points THEN {<<>>}
    ELSE { <<p>> \o rest :
             p \in FrontierPointChoices(strategies, num_points, k, sol2),
             rest \in FrontierFrom(strategies, num_points, k + 1, sol2) }

\* generate_efficient_frontier: the lists it may return
generate_efficient_frontier(strategies, num_points) ==
    IF Len(strategies) = 0 THEN {<<>>}
    ELSE IF SolveRaises(strategies) THEN {<<>>}
    ELSE UNION { FrontierFrom(strategies, num_points, 1, sol2) :
                   sol2 \in SolverOutcomes(strategies) }

InitFrontier ==
    /\ NoOtherPart
    /\ \E strategies \in FrontierStrategyLists, num_points \in NumPointsChoices :
         calc = [stage |-> "frontier_input", strategies |-> strategies,
                 num_points |-> num_points, frontier |-> <<>>]

GenerateFrontier ==
    /\ calc.stage = "frontier_input"
    /\ \E f \in generate_efficient_frontier(calc.strategies, calc.num_points) :
         calc' = [calc EXCEPT !.stage = "frontier", !.frontier = f]
    /\ UNCHANGED <<agentVars, opt, cycle>>

NextFrontier == GenerateFrontier

SpecFrontier == InitFrontier /\ [][NextFrontier]_vars

(***************************************************************************)
(* Part 4.  The data that goes through one cycle of run_optimization:      *)
(* registry query, metrics, normalisation and filter, forecast, solve,     *)
(* risk assessment and rebalance recommendation.  Whether the cycle        *)
(* returns or raises follows from the data.  An APY is in percent, a TVL   *)
(* in thousands of dollars, a volatility in tenths.                        *)
(***************************************************************************)
StrategyInfo(strategy_id, name, type, apy, tvl, risk_score) ==
    [strategy_id |-> strategy_id, name |-> name, strategy_type |-> type,
     apy |-> apy, tvl |-> tvl, risk_score |-> risk_score]

_get_mock_strategies ==
    << StrategyInfo("staking", NativeStaking, "staking", 8, 5000, 20),
       StrategyInfo("lending", LendingProtocol, "lending", 12, 2000, 40),
       StrategyInfo("lp", LiquidityProvision, "liquidity", 25, 1000, 60) >>

\* What the query of the strategy registry may come to: the RPC call raises,
\* the item cannot be parsed, or a list of strategies is read.  The lists:
\* an empty registry; staking with a TVL under the minimum next to lending
\* and a vault the configuration does not list; a vault without a name next
\* to lending; a vault whose name is blank; a vault with a negative APY.
RegistryAnswers ==
    { [kind |-> "raises", strategies |-> <<>>],
      [kind |-> "malformed", strategies |-> <<>>],
      [kind |-> "parsed", strategies |-> <<>>],
      [kind |-> "parsed", strategies |->
          << StrategyInfo("staking", NativeStaking, "staking", 8, 50, 20),
             StrategyInfo("lending", LendingProtocol, "lending", 12, 2000, 40),
             StrategyInfo("vault7", LendingPool, "lending", 16, 500, 50) >>],
      [kind |-> "parsed", strategies |->
          << StrategyInfo("vault7", EmptyName, "", 16, 500, 50),
             StrategyInfo("lending", LendingProtocol, "lending", 12, 2000, 40) >>],
      [kind |-> "parsed", strategies |->
          << StrategyInfo("vault7", BlankName, "", 16, 500, 50) >>],
      [kind |-> "parsed", strategies |->
          << StrategyInfo("vault7", LendingPool, "lending", 0 - 5, 500, 50) >>] }

\* faulty variant: a failed query yields no strategies
get_all_strategies_NoFallback(answer) == answer.strategies

\* get_all_strategies: "except Exception" around the query and the parsing
\* returns the mock strategies
get_all_strategies(answer) ==
    IF answer.kind = "parsed" THEN answer.strategies ELSE _get_mock_strategies

\* ages.get(strategy_type, 60)
_estimate_protocol_age(type) ==
    CASE type = "staking" -> 365
      [] type = "lending" -> 180
      [] type = "liquidity" -> 90
      [] OTHER -> 60

\* the annualised volatility of the 30 randomly drawn daily APYs lies in
\* (0, 0.19]; the vectors of volatilities a fetch is explored with
VolatilityDraws == { <<1, 1, 1>>, <<1, 1, 2>> }

_calculate_strategy_metrics(strategy, volatility) ==
    [strategy_id |-> strategy.strategy_id, name |-> strategy.name,
     strategy_type |-> strategy.strategy_type, current_apy |-> strategy.apy,
     tvl |-> strategy.tvl, risk_score |-> strategy.risk_score,
     volatility |-> volatility,
     protocol_age_days |-> _estimate_protocol_age(strategy.strategy_type)]

\* get_all_strategy_metrics on a cache miss
get_all_strategy_metrics(answer, volatilities) ==
    LET strategies == get_all_strategies(answer)
    IN  [i \in 1..Len(strategies) |->
            _calculate_strategy_metrics(strategies[i], volatilities[i])]

\* risk configuration (_default_config)
min_tvl == 100
min_protocol_age == 30
max_volatility == 30

\* optimization.method of the configuration
ConfigMethod == "max_sharpe"

\* 100 * log10(x / base) for x >= base, capped at 100, in steps of the ratio
Log10Percent(x, base) ==
    CASE x >= 10 * base -> 100
      [] x >= 5 * base -> 69
      [] x >= 2 * base -> 30
      [] OTHER -> 0

\* _calculate_tvl_score, in percent
_calculate_tvl_score(tvl) ==
    IF tvl < min_tvl THEN 0 ELSE Min(100, Log10Percent(tvl, min_tvl))

\* allocation_limits.get(strategy_id, (0.0, 1.0)) on the configured strategies
allocation_limits(strategy_id) ==
    CASE strategy_id = "staking" -> <<6, 30>>
      [] strategy_id = "lending" -> <<0, 24>>
      [] strategy_id = "lp" -> <<0, 18>>
      [] OTHER -> <<0, Scale>>

\* process_strategy_metrics: vol is the volatility in tenths (the optimizer's
\* unit), volatility the same in percent (the risk analyzer's unit)
process_strategy_metrics(metrics) ==
    [i \in 1..Len(metrics) |->
        [id |-> metrics[i].strategy_id,
         name |-> metrics[i].name,
         expected_return |-> metrics[i].current_apy,
         vol |-> metrics[i].volatility,
         volatility |-> 10 * metrics[i].volatility,
         risk_score |-> metrics[i].risk_score,
         tvl_score |-> _calculate_tvl_score(metrics[i].tvl),
         age_score |-> Min(100, (100 * metrics[i].protocol_age_days)
                                   \div (min_protocol_age * 4)),
         min_allocation |-> allocation_limits(metrics[i].strategy_id)[1],
         max_allocation |-> allocation_limits(metrics[i].strategy_id)[2]]]

\* the three checks of _filter_strategies
MeetsRequirements(s) ==
    /\ ~(s.volatility > max_volatility)
    /\ ~(s.tvl_score <= 0)
    /\ ~(s.age_score < 25)

\* faulty variant: nothing is filtered out
_filter_strategies_KeepsAll(strategies) == strategies

_filter_strategies(strategies) == SelectSeq(strategies, MeetsRequirements)

\* generate_synthetic_history draws np.random.normal(0, volatility * base_apy),
\* which raises ValueError for a negative scale
PredictionsRaise(metrics) ==
    \E i \in 1..Len(metrics) : metrics[i].volatility * metrics[i].current_apy < 0

\* faulty variant: a solve that does not converge raises
OptimizeRaises_OnNonConvergence(strategies, method, sol, sol2) ==
    /\ Len(strategies) > 0
    /\ method \in Objectives
    /\ SolveRaises(strategies) \/ ~Converged(strategies, method, sol, sol2)

\* optimize() raises only when minimize() rejects the bounds
OptimizeRaises(strategies, method, sol, sol2) ==
    /\ Len(strategies) > 0
    /\ method \in Objectives
    /\ SolveRaises(strategies)

\* assess_portfolio_risk raises when a strategy's type cannot be inferred
AssessRaises(strategies) ==
    \E i \in 1..Len(strategies) : ~InfersType(strategies[i].name)

NoRecommendation ==
    [current_allocations |-> {}, target_allocations |-> NoWeights, trades |-> <<>>,
     expected_improvement |-> NoImprovement, should_rebalance |-> FALSE]

\* Steps 2-7 of run_optimization on the metrics fetched.  failed_step names
\* the step that raised, "none" when the result was built.
RunCycle(metrics, current_allocations, method, sol, sol2, sol3) ==
    LET processed == process_strategy_metrics(metrics)
        strategies == _filter_strategies(processed)
        built == build_correlation_matrix(strategies, <<>>)
        correlation == built.matrix
        prepared == ~built.raised
        predicted == prepared /\ ~PredictionsRaise(metrics)
        optimized == predicted /\ ~OptimizeRaises(strategies, method, sol, sol2)
        allocation == AllocationResult(strategies, correlation, risk_free_rate, method,
                                       optimize(strategies, method, sol, sol2))
        assessed == optimized /\ ~AssessRaises(strategies)
        recommends == current_allocations # {}
        recommended ==
            assessed /\ (recommends =>
                            ~OptimizeRaises(strategies, ConfigMethod, sol3, NoSolution))
    IN  [stage |-> "done",
         metrics |-> metrics,
         processed |-> processed,
         strategies |-> strategies,
         method |-> method,
         current_allocations |-> current_allocations,
         failed_step |->
            IF ~prepared THEN "prepare_optimization_input"
            ELSE IF ~predicted THEN "_generate_predictions"
            ELSE IF ~optimized THEN "optimize"
            ELSE IF ~assessed THEN "assess_portfolio_risk"
            ELSE IF ~recommended THEN "recommend_rebalance"
            ELSE "none",
         solve_attempted |->
            /\ predicted /\ Len(strategies) > 0 /\ method \in Objectives
            /\ ~SolveRaises(strategies),
         converged |-> predicted /\ Converged(strategies, method, sol, sol2),
         allocation |->
            IF optimized THEN allocation
            ELSE AllocationResult(<<>>, <<>>, risk_free_rate, method, NoWeights),
         risk_level |->
            IF assessed
            THEN assess_portfolio_risk(strategies, allocation.strategy_allocations,
                                       correlation).risk_level
            ELSE "none",
         has_recommendation |-> recommended /\ recommends,
         recommendation_attempted |->
            /\ assessed /\ recommends /\ Len(strategies) > 0
            /\ ~SolveRaises(strategies),
         recommendation_converged |-> assessed /\ recommends /\ sol3.success,
         rebalance_recommendation |->
            IF recommended /\ recommends
            THEN recommend_rebalance(current_allocations, strategies, correlation,
                                     risk_free_rate, ConfigMethod, sol3, NoSolution)
            ELSE NoRecommendation]

\* the solver outcomes that can make a difference to a cycle
SecondSolves(strategies, method, sol) ==
    IF method = "mean_variance" /\ ~sol.success THEN SolverOutcomes(strategies)
    ELSE {NoSolution}

\* The solve inside recommend_rebalance.  The solver is deterministic: asked
\* for the configured objective on the same input it returns what the cycle's
\* own solve returned; for another objective it is a solve of its own.
RecommendationSolves(strategies, current_allocations, method, sol) ==
    IF current_allocations # {} /\ Len(strategies) > 0
    THEN IF method = ConfigMethod THEN {sol} ELSE SolverOutcomes(strategies)
    ELSE {NoSolution}

\* what get_all_strategy_metrics may return on a query (a cache hit returns
\* the list of an earlier query)
FetchedMetrics ==
    { [source |-> answer.kind,
       metrics |-> get_all_strategy_metrics(answer, volatilities)] :
         answer \in RegistryAnswers, volatilities \in VolatilityDraws }

\* the fetch returns and run_optimization(method) runs to its end on the
\* data fetched
run_optimization_resume(p) ==
    /\ pc[p] = "optimize"
    /\ \E fetched \in FetchedMetrics, method \in Methods :
         LET strategies == _filter_strategies(process_strategy_metrics(fetched.metrics))
         IN  \E sol \in SolverOutcomes(strategies) :
             \E sol2 \in SecondSolves(strategies, method, sol),
                sol3 \in RecommendationSolves(strategies, state.current_allocations,
                                             method, sol) :
               LET run == RunCycle(fetched.metrics, state.current_allocations,
                                   method, sol, sol2, sol3)
               IN  /\ IF run.failed_step = "none"
                      THEN /\ RunOptSucceed(p)
                           /\ response' = [response EXCEPT ![p] =
                                  OptimizationResponse(
                                      OptimizationResult(clock + 1, fetch_data(state, clock)),
                                      CacheRead(get_last_result, get_last_result'))]
                      ELSE /\ RunOptFail(p)
                           /\ response' = [response EXCEPT ![p] = ErrorResponse]
                   /\ cycle' = [source |-> fetched.source,
                                outcome |-> call'[p],
                                before |-> [optimization_count |-> state.optimization_count,
                                            error_count |-> state.error_count],
                                after |-> [optimization_count |-> state'.optimization_count,
                                           error_count |-> state'.error_count]]
                               @@ run
    /\ pc' = [pc EXCEPT ![p] = "done"]
    /\ UNCHANGED <<cfgfile, config, phase, data_fetcher, rpc_url, cancel_requested, opt, calc>>

\* the allocations a caller sets before, during or after the cycle
CycleAllocInputs ==
    { {<<"staking", 100>>},
      {<<"staking", 50>>, <<"lending", 50>>} }

\* one request for an optimization, next to a caller that sets the current
\* allocations
NextCycle ==
    \/ initialize
    \/ \E m \in CycleAllocInputs : call_update_allocations("api2", m)
    \/ optimize_portfolio("api1")
    \/ run_optimization_resume("api1")

SpecCycle == Init /\ [][NextCycle]_vars

(***************************************************************************)
(* The risk_tolerance argument of run_optimization and get_recommendation, *)
(* studied on calc: the same call made twice on the same state, metrics    *)
(* and solver, with two different tolerances.                              *)
(***************************************************************************)
RiskTolerances == {"conservative", "moderate", "aggressive"}

\* RiskAnalyzer.get_risk_limits: a lookup over three profiles, in percent;
\* an unknown tolerance gets the moderate profile
get_risk_limits(risk_tolerance) ==
    CASE risk_tolerance = "conservative" ->
            [max_volatility |-> 15, max_single_allocation |-> 40, max_risk_score |-> 40]
      [] risk_tolerance = "aggressive" ->
            [max_volatility |-> 40, max_single_allocation |-> 70, max_risk_score |-> 80]
      [] OTHER ->
            [max_volatility |-> 25, max_single_allocation |-> 50, max_risk_score |-> 60]

\* faulty variant: the limits of the tolerance enter the input, each
\* volatility is cut to the profile's maximum
OptimizationInputFor_WithinRiskLimits(metrics, risk_tolerance) ==
    [i \in 1..Len(metrics) |->
        [metrics[i] EXCEPT !.volatility =
            Min(@, get_risk_limits(risk_tolerance).max_volatility \div 10)]]

\* What run_optimization hands to prepare_optimization_input: the metrics,
\* the current allocations and the amount.  risk_tolerance is logged only.
OptimizationInputFor(metrics, risk_tolerance) == metrics

\* run_optimization(total_amount, risk_tolerance, method) on the metrics fetched
run_optimization(metrics, current_allocations, risk_tolerance, method, sol, sol2, sol3) ==
    LET result == RunCycle(OptimizationInputFor(metrics, risk_tolerance),
                           current_allocations, method, sol, sol2, sol3)
    IN  [entry |-> "run_optimization", risk_tolerance |-> risk_tolerance,
         failed_step |-> result.failed_step,
         allocation |-> result.allocation.strategy_allocations,
         expected_return |-> result.allocation.expected_return,
         risk_level |-> result.risk_level,
         rebalance_recommendation |-> result.rebalance_recommendation]

\* get_recommendation(user_amount, risk_tolerance): a cycle with the
\* configured method, formatted; the tolerance is echoed in the dictionary
get_recommendation(metrics, current_allocations, risk_tolerance, sol, sol2, sol3) ==
    [run_optimization(metrics, current_allocations, risk_tolerance, ConfigMethod,
                      sol, sol2, sol3)
        EXCEPT !.entry = "get_recommendation"]

NoOutcome == [entry |-> "none"]

ToleranceMethods == {ConfigMethod, "min_variance"}

InitTolerance ==
    /\ NoOtherPart
    /\ \E fetched \in FetchedMetrics, current_allocations \in CycleAllocInputs \cup {{}},
          method \in ToleranceMethods, entry \in {"run_optimization", "get_recommendation"} :
         LET strategies == _filter_strategies(process_strategy_metrics(fetched.metrics))
         IN  /\ entry = "get_recommendation" => method = ConfigMethod
             /\ \E sol \in SolverOutcomes(strategies) :
                 \E sol3 \in RecommendationSolves(strategies, current_allocations,
                                                  method, sol) :
                    calc = [stage |-> "tolerance_input", entry |-> entry,
                            metrics |-> fetched.metrics,
                            current_allocations |-> current_allocations,
                            method |-> method, sol |-> sol, sol3 |-> sol3,
                            first |-> NoOutcome, second |-> NoOutcome]

\* the call calc describes, made with this tolerance
CallWith(risk_tolerance) ==
    IF calc.entry = "get_recommendation"
    THEN get_recommendation(calc.metrics, calc.current_allocations, risk_tolerance,
                            calc.sol, NoSolution, calc.sol3)
    ELSE run_optimization(calc.metrics, calc.current_allocations, risk_tolerance,
                          calc.method, calc.sol, NoSolution, calc.sol3)

FirstCall ==
    /\ calc.stage = "tolerance_input"
    /\ \E risk_tolerance \in RiskTolerances :
         calc' = [calc EXCEPT !.stage = "first", !.first = CallWith(risk_tolerance)]
    /\ UNCHANGED <<agentVars, opt, cycle>>

\* the same call again, with another tolerance
SecondCall ==
    /\ calc.stage = "first"
    /\ \E risk_tolerance \in RiskTolerances \ {calc.first.risk_tolerance} :
         calc' = [calc EXCEPT !.stage = "second", !.second = CallWith(risk_tolerance)]
    /\ UNCHANGED <<agentVars, opt, cycle>>

NextTolerance ==
    \/ FirstCall
    \/ SecondCall

SpecTolerance == InitTolerance /\ [][NextTolerance]_vars

(***************************************************************************)
(* YieldPredictor (optimizer/predictor.py), the one instance the agent     *)
(* builds, studied on calc.  A training series is known by its number of   *)
(* rows and by whether it carries the 'apy' column; the recent series      *)
(* handed to predict is its sequence of APY values, in percent.  What the  *)
(* two regressors and their scalers hold is known by the strategy whose    *)
(* series they were last fitted on.                                        *)
(***************************************************************************)
MaxCalls == 4

default_lookback_days == 30
least_samples == 14
least_target_rows == 10
longest_horizon == 30
short_window == 7

\* config["optimization"]["lookback_days"], by default 30
LookbackChoices == {7, default_lookback_days}

PredictorIds == {"staking", "lending"}

\* faulty variant: the look-back alone decides
min_samples_LookbackOnly(lookback_days) == lookback_days

\* min_samples = max(self.lookback_days, 14)
min_samples(lookback_days) ==
    IF lookback_days > least_samples THEN lookback_days ELSE least_samples

\* rows left by dropna(subset=["target_7d", "target_30d"]): the targets are
\* the APY 7 and 30 rows ahead, so the last 30 rows have no target_30d
RowsWithTargets(rows) == IF rows > longest_horizon THEN rows - longest_horizon ELSE 0

\* the training series explored
TrainingSeries ==
    { [has_apy |-> TRUE, rows |-> n] : n \in {0, 7, 13, 14, 29, 30, 39, 40, 60} }
      \cup { [has_apy |-> FALSE, rows |-> 0] }

\* __init__: models and scalers of the instance, not yet fitted
YieldPredictorInit == [_is_trained |-> FALSE, fitted_on |-> "none"]

\* train(strategy_id, historical_data): what it returns (or raises) and the
\* predictor it leaves.  prepare_features raises ValueError without the
\* 'apy' column; both models and scalers of the instance are refitted on
\* success.
train(predictor, lookback_days, strategy_id, historical_data) ==
    IF ~historical_data.has_apy
    THEN [result |-> "ValueError", predictor |-> predictor]
    ELSE IF historical_data.rows < min_samples(lookback_days)
    THEN [result |-> "insufficient_data",
          predictor |-> [predictor EXCEPT !._is_trained = FALSE]]
    ELSE IF RowsWithTargets(historical_data.rows) < least_target_rows
    THEN [result |-> "insufficient_samples",
          predictor |-> [predictor EXCEPT !._is_trained = FALSE]]
    ELSE [result |-> "trained",
          predictor |-> [_is_trained |-> TRUE, fitted_on |-> strategy_id]]

\* the last k values of a series
Tail_(q, k) == SubSeq(q, Len(q) - k + 1, Len(q))

\* _determine_trend: both relative changes above 0.5%, both below -0.5%
_determine_trend(current, pred_7d, pred_30d) ==
    LET Up(pr) == current > 0 /\ (pr.num - current * pr.den) * 1000 > 5 * current * pr.den
        Down(pr) == current > 0 /\ (pr.num - current * pr.den) * 1000 < 0 - 5 * current * pr.den
    IN  IF Up(pred_7d) /\ Up(pred_30d) THEN "up"
        ELSE IF Down(pred_7d) /\ Down(pred_30d) THEN "down"
        ELSE "stable"

\* _simple_prediction: forecasts as rationals, confidence in percent
_simple_prediction(strategy_id, current_data) ==
    IF Len(current_data) = 0
    THEN [strategy_id |-> strategy_id, path |-> "simple", current_apy |-> 0,
          predicted_apy_7d |-> [num |-> 0, den |-> 1],
          predicted_apy_30d |-> [num |-> 0, den |-> 1],
          confidence |-> 0, trend |-> "stable"]
    ELSE LET current_apy == current_data[Len(current_data)]
             k == IF Len(current_data) < short_window THEN Len(current_data)
                  ELSE short_window
             pred_7d == [num |-> current_apy * k + SeqSum(Tail_(current_data, k)),
                         den |-> 2 * k]
             pred_30d == [num |-> current_apy * Len(current_data) + SeqSum(current_data),
                          den |-> 2 * Len(current_data)]
         IN  [strategy_id |-> strategy_id, path |-> "simple",
              current_apy |-> current_apy,
              predicted_apy_7d |-> pred_7d, predicted_apy_30d |-> pred_30d,
              confidence |-> 50,
              trend |-> _determine_trend(current_apy, pred_7d, pred_30d)]

\* predict(strategy_id, current_data).  On the trained path the forecasts
\* are those of the instance's models, whatever series they were fitted on;
\* with no row to transform the scaler raises.
predict(predictor, strategy_id, current_data) ==
    IF ~predictor._is_trained THEN _simple_prediction(strategy_id, current_data)
    ELSE IF Len(current_data) = 0
    THEN [strategy_id |-> strategy_id, path |-> "raises", model_of |-> predictor.fitted_on]
    ELSE [strategy_id |-> strategy_id, path |-> "trained",
          current_apy |-> current_data[Len(current_data)],
          model_of |-> predictor.fitted_on]

\* the recent series explored
RecentSeries ==
    { <<>>, <<8>>, <<12, 8>>, <<6, 8, 10, 12, 14, 16, 18, 20>>,
      <<30, 8, 8, 8, 8, 8, 8, 8>> }

NoCall == [op |-> "none"]

InitPredictor ==
    /\ NoOtherPart
    /\ \E lookback_days \in LookbackChoices :
         calc = [stage |-> "predictor", lookback_days |-> lookback_days,
                 predictor |-> YieldPredictorInit,
                 last_train |-> [id \in PredictorIds |-> "none"],
                 calls |-> 0, last_call |-> NoCall]

\* one call of train
Train ==
    /\ calc.stage = "predictor"
    /\ calc.calls < MaxCalls
    /\ \E strategy_id \in PredictorIds, historical_data \in TrainingSeries :
         LET done == train(calc.predictor, calc.lookback_days, strategy_id, historical_data)
         IN  calc' = [calc EXCEPT
                        !.predictor = done.predictor,
                        !.last_train[strategy_id] = done.result,
                        !.calls = @ + 1,
                        !.last_call = [op |-> "train", strategy_id |-> strategy_id,
                                       historical_data |-> historical_data,
                                       result |-> done.result]]
    /\ UNCHANGED <<agentVars, opt, cycle>>

\* one call of predict
Predict ==
    /\ calc.stage = "predictor"
    /\ calc.calls < MaxCalls
    /\ \E strategy_id \in PredictorIds, current_data \in RecentSeries :
         calc' = [calc EXCEPT
                    !.calls = @ + 1,
                    !.last_call = [op |-> "predict", strategy_id |-> strategy_id,
                                   current_data |-> current_data,
                                   was_trained |-> calc.predictor._is_trained,
                                   result |-> predict(calc.predictor, strategy_id,
                                                      current_data)]]
    /\ UNCHANGED <<agentVars, opt, cycle>>

NextPredictor ==
    \/ Train
    \/ Predict

SpecPredictor == InitPredictor /\ [][NextPredictor]_vars

\* ---- what the optimizer's contract asks of a weight vector ----
\* each min <= max, sum of mins <= 1 <= sum of maxes
FeasibleBounds(strategies) ==
    /\ \A i \in 1..Len(strategies) :
          strategies[i].min_allocation <= strategies[i].max_allocation
    /\ SeqSum([i \in 1..Len(strategies) |-> strategies[i].min_allocation]) <= Scale
    /\ SeqSum([i \in 1..Len(strategies) |-> strategies[i].max_allocation]) >= Scale

\* min_i <= num_i/den <= max_i
WithinBounds(w, strategies) ==
    /\ w.den > 0
    /\ \A i \in 1..Len(strategies) :
          /\ strategies[i].min_allocation * w.den <= w.num[i] * Scale
          /\ w.num[i] * Scale <= strategies[i].max_allocation * w.den

\* | sum_i num_i/den - 1 | <= 1e-6
SumsToOne(w) ==
    /\ w.den > 0
    /\ LET d == SeqSum(w.num) - w.den
       IN  (IF d < 0 THEN -d ELSE d) * 1000000 <= w.den

\* two weight vectors denote the same weights: a.num[i]/a.den = b.num[i]/b.den
SameWeights(a, b) ==
    /\ Len(a.num) = Len(b.num)
    /\ \A i \in 1..Len(a.num) : a.num[i] * b.den = b.num[i] * a.den

\* equal weights 1/n clipped to each strategy's [min, max]
ClippedEqualWeights(strategies) ==
    LET n == Len(strategies)
    IN  [num |-> [i \in 1..n |-> Clip(Scale \div n, strategies[i].min_allocation,
                                      strategies[i].max_allocation)],
         den |-> Scale]

\* the same vector rescaled to sum to 1
ClippedEqualWeightsRescaled(strategies) ==
    [num |-> ClippedEqualWeights(strategies).num,
     den |-> SeqSum(ClippedEqualWeights(strategies).num)]

(***************************************************************************)
(* Properties.                                                             *)
(***************************************************************************)

\* C1: for every non-empty list of included strategies with feasible bounds
\* and every objective, each weight returned by optimize lies within the
\* strategy's [min_allocation, max_allocation] and the weights sum to 1
\* within 1e-6, whether the solver converged or the fallback was returned.
C1_WeightsWithinBoundsAndSumToOne ==
    (/\ opt.stage = "done"
     /\ Len(opt.strategies) > 0
     /\ FeasibleBounds(opt.strategies)
     /\ opt.method \in Objectives)
    => (WithinBounds(opt.weights, opt.strategies) /\ SumsToOne(opt.weights))

\* C2: current_allocations is only ever replaced by a map whose weights sum
\* within [0.99, 1.01]; a map summing outside is rejected without mutation.
C2_AllocationsSumValidated ==
    state.current_allocations # {} => AllocationSumValid(state.current_allocations)

\* C3: a run_optimization call that returns normally increments
\* optimization_count by exactly one and leaves error_count unchanged; a call
\* that raises increments error_count by exactly one and leaves
\* optimization_count unchanged.
C3_CountersPerCall ==
    [][\A p \in Tasks :
         /\ (call[p] # "returned" /\ call'[p] = "returned")
              => /\ state'.optimization_count = state.optimization_count + 1
                 /\ state'.error_count = state.error_count
         /\ (call[p] # "raised" /\ call'[p] = "raised")
              => /\ state'.error_count = state.error_count + 1
                 /\ state'.optimization_count = state.optimization_count]_vars

\* C3 witness: one call has returned and another has raised, each counted once
C3_Witness ==
    \E p, q \in Tasks :
        /\ call[p] = "returned" /\ call[q] = "raised"
        /\ state.optimization_count = 1 /\ state.error_count = 1

\* C4: at no time are two run_optimization calls on the agent in progress.
C4_NoOverlappingCycles ==
    Cardinality({p \in Tasks : call[p] = "running"}) <= 1

\* C5: a status query never observes a partially updated snapshot: the
\* last_optimization and optimization_count that get_state returns, and the
\* result that get_last_result returns, are those of one published snapshot,
\* and at every moment a query can run the three agree with the latest one.
C5_NoPartialSnapshot ==
    /\ [ts |-> state.last_optimization, count |-> state.optimization_count,
        result |-> last_result] \in published
    /\ \A p \in Tasks :
         /\ response[p].kind = "health" =>
              \E h \in published : /\ h.ts = response[p].last_optimization
                                   /\ h.count = response[p].optimization_count
         /\ response[p].kind = "result" =>
              \E h \in published : h.result = response[p].value

\* C5 witness: a status query answered after a publication while another
\* cycle is suspended in its fetch
C5_Witness ==
    \E p, q \in Tasks :
        /\ response[p].kind = "health"
        /\ response[p].optimization_count >= 1
        /\ call[q] = "running"

\* C6: run_continuous returns normally whenever it is cancelled, during a
\* cycle, the inter-cycle sleep or the back-off sleep.
C6_CancelReturnsNormally ==
    cancel_requested => pc[LoopTask] = "returned"

\* C7: a cycle started inside run_continuous always runs to completion before
\* the loop exits; a cancellation never aborts a cycle part-way.
C7_CycleRunsToCompletion ==
    pc[LoopTask] \in {"returned", "raised"} => call[LoopTask] # "cancelled"

\* C8: a failed cycle never ends the loop: the error is caught at the loop
\* boundary, the loop enters the back-off sleep and, unless the running flag
\* is cleared or the task is cancelled, it eventually starts another cycle.
C8_FailureNeverEndsLoop ==
    /\ [][(call[LoopTask] = "running" /\ call'[LoopTask] = "raised")
            => pc'[LoopTask] = "backoff"]_vars
    /\ (pc[LoopTask] = "backoff")
         ~> (pc[LoopTask] = "cycle" \/ ~state.is_running \/ cancel_requested)

\* C8 witness: a cycle started after an earlier cycle of the loop had failed
C8_Witness ==
    /\ pc[LoopTask] = "cycle"
    /\ state.error_count >= 1
    /\ state.is_running

\* C9: with required configuration missing the agent never reaches the
\* running state.
C9_NoRunningOnMissingConfig ==
    state.is_running => cfgfile = "complete"

\* C10: apart from the running flag, no AgentState field changes except by
\* the completion of a run_optimization call in progress while the running
\* flag is set.
C10_MutatedOnlyByRunningCycle ==
    [][[state EXCEPT !.is_running = TRUE] # [state' EXCEPT !.is_running = TRUE]
         => /\ state.is_running
            /\ \E p \in Tasks : /\ call[p] = "running"
                                /\ call'[p] \in {"returned", "raised"}]_vars

\* C20: for every objective, when the objective's solve does not converge
\* optimize returns the bounded equal-weight starting vector: equal weights
\* clipped to the per-strategy bounds (as clipped, or rescaled to sum to 1).
C20_FallbackIsBoundedEqualWeight ==
    (/\ opt.stage = "done"
     /\ Len(opt.strategies) > 0
     /\ opt.method \in Objectives
     /\ ~opt.success)
    => \/ SameWeights(opt.weights, ClippedEqualWeights(opt.strategies))
       \/ SameWeights(opt.weights, ClippedEqualWeightsRescaled(opt.strategies))

\* C19: generate_efficient_frontier omits every target whose mean-variance
\* solve fails (a point is present only if its target's solve succeeded), so
\* the frontier has between 0 and num_points points, and every point's return
\* lies within [minimum, maximum] single-strategy expected return.
C19_FrontierOmitsFailedTargets ==
    calc.stage = "frontier" =>
        /\ \A i \in 1..Len(calc.frontier) : calc.frontier[i].solved
        /\ Len(calc.frontier) <= calc.num_points
        /\ \A i \in 1..Len(calc.frontier) :
             LET r == calc.frontier[i].return
             IN  /\ SeqMin(Returns(calc.strategies)) * r.den <= r.num
                 /\ r.num <= SeqMax(Returns(calc.strategies)) * r.den

\* C18: the correlation matrix build_correlation_matrix returns for any list
\* of included strategies is symmetric, has every diagonal entry exactly 1.0
\* and every entry within [-1, 1], on the heuristic path and on the
\* historical-series path.
C18_CorrelationMatrixWellFormed ==
    (calc.stage = "correlation" /\ ~calc.raised) =>
        LET m == calc.matrix
            n == Len(calc.strategies)
        IN  /\ \A i, j \in 1..n : m[i][j] = m[j][i]
            /\ \A i \in 1..n : m[i][i] = Corr(100)
            /\ \A i, j \in 1..n : ~m[i][j].nan /\ -100 <= m[i][j].v /\ m[i][j].v <= 100

\* the level the fixed thresholds give: < 25 low, < 50 medium, < 75 high,
\* otherwise very_high
LevelByThresholds(score) ==
    CASE score < 25 * 100 -> "low"
      [] score >= 25 * 100 /\ score < 50 * 100 -> "medium"
      [] score >= 50 * 100 /\ score < 75 * 100 -> "high"
      [] score >= 75 * 100 -> "very_high"

InRange(x, lo, hi) == lo <= x /\ x <= hi

\* C17: for every normalised strategy each of the four risk sub-scores lies
\* in [0, 25] and the total in [0, 100]; the portfolio score lies in [0, 100];
\* and every score maps to exactly the level of the thresholds 25/50/75.
C17_RiskScoresBounded ==
    /\ (calc.stage = "strategy" /\ ~calc.raised) =>
          LET a == calc.assessment
          IN  /\ InRange(a.components.volatility_risk, 0, 25 * 100)
              /\ InRange(a.components.smart_contract_risk, 0, 25 * 100)
              /\ InRange(a.components.liquidity_risk, 0, 25 * 100)
              /\ InRange(a.components.strategy_specific_risk, 0, 25 * 100)
              /\ InRange(a.overall_risk_score, 0, 100 * 100)
              /\ a.risk_level = LevelByThresholds(a.overall_risk_score)
    /\ (calc.stage = "portfolio" /\ ~calc.raised) =>
          LET a == calc.assessment
          IN  /\ InRange(a.overall_risk_score, 0, 100 * 100)
              /\ a.risk_level = LevelByThresholds(a.overall_risk_score)
              /\ \A i \in 1..Len(a.strategy_risks) :
                    InRange(a.strategy_risks[i].overall_risk_score, 0, 100 * 100)

\* C17 witness: a portfolio of several strategies whose score is capped at
\* 100, holding a strategy whose four sub-scores are all 25
C17_Witness ==
    /\ calc.stage = "portfolio" /\ ~calc.raised
    /\ Len(calc.strategies) > 1
    /\ calc.assessment.overall_risk_score = 100 * 100
    /\ calc.assessment.risk_level = "very_high"
    /\ \E i \in 1..Len(calc.strategies) :
         calc.assessment.strategy_risks[i].overall_risk_score = 100 * 100

\* the ids a trade list names, with repetitions kept
TradesOf(id) == { i \in 1..Len(calc.trades) : calc.trades[i].strategy_id = id }

\* the position of an id in the strategies of the input, 0 when it is not one
PositionOf(id) ==
    IF \E i \in 1..Len(calc.strategies) : calc.strategies[i].id = id
    THEN CHOOSE i \in 1..Len(calc.strategies) : calc.strategies[i].id = id
    ELSE 0

\* every id that either allocation mentions
AllocationIds ==
    Keys(calc.current) \cup
    (IF calc.stage = "recommended"
     THEN { calc.strategies[i].id : i \in 1..Len(calc.target.num) }
     ELSE Keys(calc.target))

\* |target - current| > 0.05 for an id, on the allocations of the call
DiffersByMoreThanThreshold(id) ==
    IF calc.stage = "recommended"
    THEN LET i == PositionOf(id)
             t == IF i >= 1 /\ i <= Len(calc.target.num) THEN calc.target.num[i] ELSE 0
         IN  Abs(100 * t - Get(calc.current, id) * calc.target.den) > 5 * calc.target.den
    ELSE Abs(Get(calc.target, id) - Get(calc.current, id)) > 5

\* C13: a trade list contains a trade for a strategy exactly when
\* |target - current| exceeds the threshold (0.05), for recommend_rebalance
\* and for calculate_rebalance_trades; current {staking: 1.0} with target
\* {staking: 0.5, lending: 0.5} gives exactly two trades, decrease staking by
\* 0.5 and increase lending by 0.5.
C13_TradeExactlyWhenDifferenceExceedsThreshold ==
    calc.stage \in {"recommended", "calculated"} =>
        /\ \A id \in AllocationIds :
              (TradesOf(id) # {}) <=> DiffersByMoreThanThreshold(id)
        /\ ( /\ calc.stage = "recommended"
             /\ calc.current = {<<"staking", 100>>}
             /\ Len(calc.strategies) = 2
             /\ calc.strategies[1].id = "staking" /\ calc.strategies[2].id = "lending"
             /\ calc.target.num[1] * 2 = calc.target.den
             /\ calc.target.num[2] * 2 = calc.target.den )
            => /\ Len(calc.trades) = 2
               /\ calc.trades[1].strategy_id = "staking"
               /\ calc.trades[1].action = "decrease"
               /\ calc.trades[1].weight_change.num * 2 = - calc.trades[1].weight_change.den
               /\ calc.trades[2].strategy_id = "lending"
               /\ calc.trades[2].action = "increase"
               /\ calc.trades[2].weight_change.num * 2 = calc.trades[2].weight_change.den

\* the ids recommend_rebalance looks at: the strategies of its input
InputIds == { calc.strategies[i].id : i \in 1..Len(calc.strategies) }

\* C13 as amended: recommend_rebalance's list contains a trade for a strategy
\* exactly when the strategy is in the optimization input and
\* |target - current| exceeds the threshold (0.05), so a strategy that is held
\* but is not in the input gets no trade; calculate_rebalance_trades' list
\* contains a trade for an id of either map exactly when |target - current|
\* exceeds the threshold; current {staking: 1.0} with target {staking: 0.5,
\* lending: 0.5} gives exactly two trades, decrease staking by 0.5 and
\* increase lending by 0.5.
C13_TradeForInputStrategyExactlyWhenDifferenceExceedsThreshold ==
    /\ calc.stage = "recommended" =>
          /\ \A id \in InputIds : (TradesOf(id) # {}) <=> DiffersByMoreThanThreshold(id)
          /\ \A i \in 1..Len(calc.trades) : calc.trades[i].strategy_id \in InputIds
          /\ ( /\ calc.current = {<<"staking", 100>>}
               /\ Len(calc.strategies) = 2
               /\ calc.strategies[1].id = "staking" /\ calc.strategies[2].id = "lending"
               /\ calc.target.num[1] * 2 = calc.target.den
               /\ calc.target.num[2] * 2 = calc.target.den )
              => /\ Len(calc.trades) = 2
                 /\ calc.trades[1].strategy_id = "staking"
                 /\ calc.trades[1].action = "decrease"
                 /\ calc.trades[1].weight_change.num * 2 = - calc.trades[1].weight_change.den
                 /\ calc.trades[2].strategy_id = "lending"
                 /\ calc.trades[2].action = "increase"
                 /\ calc.trades[2].weight_change.num * 2 = calc.trades[2].weight_change.den
    /\ calc.stage = "calculated" =>
          /\ \A id \in AllocationIds : (TradesOf(id) # {}) <=> DiffersByMoreThanThreshold(id)
          /\ \A i \in 1..Len(calc.trades) : calc.trades[i].strategy_id \in AllocationIds

\* C13 witness: everything is held in a strategy that is not in the input;
\* the recommendation has the two increases towards the target (0.5, 0.5)
\* and no trade for the strategy held
C13_Witness ==
    /\ calc.stage = "recommended"
    /\ calc.current = {<<"lp", 100>>}
    /\ InputIds = {"staking", "lending"}
    /\ calc.target.num[1] * 2 = calc.target.den
    /\ Len(calc.trades) = 2
    /\ calc.trades[1].action = "increase" /\ calc.trades[2].action = "increase"
    /\ TradesOf("lp") = {}

\* |weight_change| of trade i is at least that of trade j
AtLeastAsLarge(i, j) ==
    Abs(calc.trades[i].weight_change.num) * calc.trades[j].weight_change.den
      >= Abs(calc.trades[j].weight_change.num) * calc.trades[i].weight_change.den

\* C14: in every trade list all decreases come before all increases, and
\* within each group the trades are in non-increasing order of
\* |weight_change|.
C14_DecreasesFirstLargestFirst ==
    calc.stage \in {"recommended", "calculated"} =>
        \A i, j \in 1..Len(calc.trades) :
            i < j =>
              /\ ~(calc.trades[i].action = "increase" /\ calc.trades[j].action = "decrease")
              /\ calc.trades[i].action = calc.trades[j].action => AtLeastAsLarge(i, j)

\* C14 witness: a recommendation of three trades, a decrease and two
\* increases, whose first trade is not for the first strategy of the input
C14_Witness ==
    /\ calc.stage = "recommended"
    /\ Len(calc.trades) = 3
    /\ calc.trades[1].action = "decrease"
    /\ calc.trades[2].action = "increase"
    /\ calc.trades[3].action = "increase"
    /\ ~AtLeastAsLarge(3, 2)
    /\ PositionOf(calc.trades[1].strategy_id) > 1

\* C15: should_rebalance is true exactly when the trade list is non-empty
\* and the Sharpe improvement exceeds 0.05 or the return improvement
\* exceeds 0.01.
C15_ShouldRebalanceRule ==
    calc.stage = "recommended" =>
        ( calc.should_rebalance
          <=> /\ calc.trades # <<>>
              /\ \/ calc.expected_improvement.sharpe_improvement > 50
                 \/ calc.expected_improvement.return_improvement.num
                      > calc.expected_improvement.return_improvement.den )

\* C15 witness: no trade is to be made although the Sharpe ratio would
\* improve by more than 0.05, and the recommendation is not to rebalance
C15_Witness ==
    /\ calc.stage = "recommended"
    /\ Len(calc.strategies) > 0
    /\ calc.trades = <<>>
    /\ calc.expected_improvement.sharpe_improvement > 50
    /\ ~calc.should_rebalance

\* a solve of the cycle was run and did not converge
CycleSolveDidNotConverge ==
    \/ cycle.solve_attempted /\ ~cycle.converged
    \/ cycle.recommendation_attempted /\ ~cycle.recommendation_converged

\* the cycle returned a result and was counted as a success
CycleCountedAsSuccess ==
    /\ cycle.outcome = "returned"
    /\ cycle.after.optimization_count = cycle.before.optimization_count + 1
    /\ cycle.after.error_count = cycle.before.error_count

\* C11: a solver non-convergence inside a cycle is not a failed cycle, for
\* every objective: neither solve raises, and unless another step raises
\* run_optimization returns a result, optimization_count increases by one
\* and error_count is unchanged.
C11_NonConvergenceIsNotAFailedCycle ==
    (cycle.stage = "done" /\ CycleSolveDidNotConverge) =>
        /\ cycle.failed_step \notin {"optimize", "recommend_rebalance"}
        /\ cycle.failed_step = "none" => CycleCountedAsSuccess

\* C11 witness: a mean-variance cycle on three strategies in which no solve
\* converged, neither the cycle's two nor the recommendation's, has returned
C11_Witness ==
    /\ cycle.stage = "done"
    /\ cycle.method = "mean_variance"
    /\ Len(cycle.strategies) = 3
    /\ cycle.solve_attempted /\ ~cycle.converged
    /\ cycle.recommendation_attempted /\ ~cycle.recommendation_converged
    /\ CycleCountedAsSuccess
    /\ state.optimization_count = 1 /\ state.error_count = 0

\* the metrics are those of the three mock strategies
MetricsAreMock ==
    /\ Len(cycle.metrics) = 3
    /\ [i \in 1..3 |-> cycle.metrics[i].strategy_id] = <<"staking", "lending", "lp">>
    /\ [i \in 1..3 |-> cycle.metrics[i].current_apy] = <<8, 12, 25>>
    /\ [i \in 1..3 |-> cycle.metrics[i].tvl] = <<5000, 2000, 1000>>
    /\ [i \in 1..3 |-> cycle.metrics[i].risk_score] = <<20, 40, 60>>

\* C12: when the on-chain strategy query fails, the cycle continues on the
\* built-in mock strategy data and is counted as a successful cycle.
C12_QueryFailureFallsBackToMock ==
    (cycle.stage = "done" /\ cycle.source \in {"raises", "malformed"}) =>
        /\ MetricsAreMock
        /\ cycle.failed_step = "none"
        /\ CycleCountedAsSuccess

\* C12 witness: the registry query raised and the cycle returned a result
\* for the three mock strategies, with a rebalance recommendation
C12_Witness ==
    /\ cycle.stage = "done"
    /\ cycle.source = "raises"
    /\ MetricsAreMock
    /\ Len(cycle.strategies) = 3
    /\ cycle.has_recommendation
    /\ CycleCountedAsSuccess
    /\ last_result # NoResult

\* a normalised strategy fails one of the filter's three requirements
FailsFilter(s) == s.volatility > 30 \/ s.tvl_score <= 0 \/ s.age_score < 25

\* the ids of the fetched strategies that fail the filter
ExcludedIds ==
    { cycle.processed[i].id :
        i \in { k \in 1..Len(cycle.processed) : FailsFilter(cycle.processed[k]) } }

\* C16: a strategy that fails the filter never appears in that cycle's trade
\* list and never has a non-zero target weight, also when it is in the
\* current allocation.
C16_ExcludedStrategyNeverTraded ==
    (cycle.stage = "done" /\ cycle.failed_step = "none") =>
        \A id \in ExcludedIds :
            /\ \A i \in 1..Len(cycle.rebalance_recommendation.trades) :
                  cycle.rebalance_recommendation.trades[i].strategy_id # id
            /\ \A j \in 1..Len(cycle.strategies) :
                  cycle.strategies[j].id = id =>
                    /\ cycle.allocation.strategy_allocations.num[j] = 0
                    /\ cycle.has_recommendation =>
                          cycle.rebalance_recommendation.target_allocations.num[j] = 0

\* C16 witness: a cycle whose recommendation has trades while a strategy
\* held in the current allocation was filtered out
C16_Witness ==
    /\ cycle.stage = "done" /\ cycle.failed_step = "none"
    /\ cycle.has_recommendation
    /\ cycle.rebalance_recommendation.trades # <<>>
    /\ \E id \in ExcludedIds : Get(cycle.current_allocations, id) > 0

\* C24: a failed cycle leaves the published result untouched: no step of a
\* run_optimization call that raises changes the last-result cache,
\* last_optimization, optimization_count or current_allocations, so
\* get_last_result keeps returning the previous successful result (or none).
C24_FailedCycleLeavesResultUntouched ==
    [][(\E p \in Tasks : call[p] # "raised" /\ call'[p] = "raised")
         => /\ last_result' = last_result
            /\ state'.last_optimization = state.last_optimization
            /\ state'.optimization_count = state.optimization_count
            /\ state'.current_allocations = state.current_allocations]_vars

\* C24 witness: a call has raised after its fetch while the result of an
\* earlier successful cycle is cached and current allocations are set
C24_Witness ==
    /\ \E p \in Tasks : call[p] = "raised"
    /\ state.error_count = 1
    /\ state.optimization_count = 1
    /\ last_result # NoResult
    /\ state.last_optimization = last_result.timestamp
    /\ state.last_data_fetch > state.last_optimization
    /\ state.current_allocations # {}

C30_OptimizeResponseFromOneCycle ==
    \A p \in ApiTasks :
        response[p].kind = "optimize" =>
            /\ response[p].risk_of = response[p].timestamp
            /\ \E r \in published : r.ts = response[p].timestamp

\* C30 witness: both requests were answered by overlapping cycles of their
\* own, and the cache has moved on from the cycle of the first response.
C30_Witness ==
    /\ response["api1"].kind = "optimize"
    /\ response["api2"].kind = "optimize"
    /\ response["api1"].timestamp # response["api2"].timestamp
    /\ last_result.timestamp # response["api1"].timestamp
    /\ state.optimization_count = 2

\* C26: in every result carrying a rebalance recommendation, the
\* recommendation's target allocation is the allocation published in the same
\* result (same objective, same weights), for every method argument, including
\* one that differs from the configured default.
C26_RecommendationTargetsPublishedAllocation ==
    (cycle.stage = "done" /\ cycle.failed_step = "none" /\ cycle.has_recommendation)
        => /\ cycle.rebalance_recommendation.target_allocations
                  = cycle.allocation.strategy_allocations
           /\ cycle.allocation.optimization_method = ConfigMethod

\* the type the data layer records for the strategy of this name
\* (StrategyInfo.strategy_type of the strategies it supplies by default)
DataLayerType(name) ==
    _get_mock_strategies[CHOOSE i \in 1..Len(_get_mock_strategies) :
                             _get_mock_strategies[i].name = name].strategy_type

SuppliedNames == { _get_mock_strategies[i].name : i \in 1..Len(_get_mock_strategies) }

\* the multiplier of a strategy type, in tenths: staking 0.6, lending 0.8,
\* liquidity 1.0, any other type 1.0
MultiplierOfType(type) ==
    IF type = "staking" THEN 6 ELSE IF type = "lending" THEN 8 ELSE 10

\* C21: for every strategy the data layer supplies, the staking strategy
\* named "Native Staking" included, the contract risk assessed is
\* 25 x (1 - age_score) x the multiplier of the strategy's type.
C21_ContractRiskUsesTypeMultiplier ==
    (calc.stage = "strategy" /\ ~calc.raised /\ calc.strategy.name \in SuppliedNames)
        => calc.assessment.components.smart_contract_risk * 10
             = 25 * (100 - calc.strategy.age_score)
                  * MultiplierOfType(DataLayerType(calc.strategy.name))

\* the net weight deployed by the first k trades of the list: increases
\* minus decreases, as a numerator over the list's common denominator
RECURSIVE NetDeployed(_)
NetDeployed(k) ==
    IF k = 0 THEN 0 ELSE calc.trades[k].weight_change.num + NetDeployed(k - 1)

\* C27: given a current allocation summing to 1, executing the recommended
\* trades in list order never brings the total allocated weight above 1: at
\* every prefix of the list the weight deployed by increases is at most the
\* weight freed by decreases.
C27_TradesNeverOverAllocate ==
    (calc.stage \in {"recommended", "calculated"} /\ SumWeights(calc.current) = 100)
        => \A k \in 1..Len(calc.trades) : NetDeployed(k) <= 0

\* C28: risk_tolerance does not influence the outcome of a cycle: two calls
\* of run_optimization or get_recommendation on the same state, metrics,
\* amount and method that differ in risk_tolerance only end alike and give
\* the same allocation weights and the same risk assessment.
C28_RiskToleranceHasNoInfluence ==
    (calc.stage = "second" /\ calc.first.risk_tolerance # calc.second.risk_tolerance)
        => /\ calc.first.failed_step = calc.second.failed_step
           /\ calc.first.allocation = calc.second.allocation
           /\ calc.first.expected_return = calc.second.expected_return
           /\ calc.first.risk_level = calc.second.risk_level
           /\ calc.first.rebalance_recommendation = calc.second.rebalance_recommendation

\* C28 witness: a conservative and an aggressive call have both succeeded on
\* metrics that hold a strategy of 20% volatility, above the conservative
\* profile's limit, and both allocate to three strategies.
C28_Witness ==
    /\ calc.stage = "second"
    /\ {calc.first.risk_tolerance, calc.second.risk_tolerance}
          = {"conservative", "aggressive"}
    /\ calc.first.failed_step = "none"
    /\ calc.second.failed_step = "none"
    /\ \E i \in 1..Len(calc.metrics) : calc.metrics[i].volatility = 2
    /\ Len(calc.second.allocation.num) = 3
    /\ calc.second.risk_level # "none"

\* C29: once shutdown() has cleared the running flag, a run_continuous loop
\* starts no further cycle and returns: a loop that is sleeping returns when
\* its sleep ends, a loop called while the flag is not set returns without
\* running a cycle, and a loop inside a cycle goes on to a sleep it will
\* return from.  As an action property: with the flag cleared, every step of
\* the loop task outside a cycle is its return, and no step starts a cycle.
C29_ShutdownEndsLoop ==
    [][(~state.is_running /\ pc'[LoopTask] # pc[LoopTask])
         => /\ pc[LoopTask] \in {"idle", "sleep", "backoff"}
                 => /\ pc'[LoopTask] = "returned"
                    /\ call'[LoopTask] = call[LoopTask]
            /\ pc[LoopTask] = "cycle"
                 => pc'[LoopTask] \in {"sleep", "backoff", "returned"}]_vars

\* the mean of the last k values of a series (of all of them when it is shorter)
MeanOfLast(q, k) ==
    LET n == IF Len(q) < k THEN Len(q) ELSE k
    IN  [num |-> SeqSum(SubSeq(q, Len(q) - n + 1, Len(q))), den |-> n]

\* forecast = (current + mean) / 2, over rationals
IsAverageOf(forecast, current, mean) ==
    forecast.num * 2 * mean.den = (current * mean.den + mean.num) * forecast.den

\* the series of the last train call lacks data: fewer than
\* max(lookback_days, 14) rows, or fewer than 10 rows that have both targets
LacksData(lookback_days, series) ==
    \/ series.rows < (IF lookback_days > 14 THEN lookback_days ELSE 14)
    \/ (IF series.rows > 30 THEN series.rows - 30 ELSE 0) < 10

\* C22: train never raises for lack of data: with fewer than
\* max(lookback_days, 14) observations, or fewer than 10 rows left with both
\* targets, the model marks itself untrained and returns an insufficient-data
\* result; and every predict made while untrained returns the mean-reversion
\* heuristic (each forecast the average of the current value and its moving
\* average, the 7-row mean and the mean of the recent series) with
\* confidence 0.5.
C22_LackOfDataDegradesToHeuristic ==
    /\ (calc.last_call.op = "train"
          /\ LacksData(calc.lookback_days, calc.last_call.historical_data))
         => /\ calc.last_call.result \in {"insufficient_data", "insufficient_samples"}
            /\ ~calc.predictor._is_trained
    /\ (calc.last_call.op = "predict" /\ ~calc.last_call.was_trained)
         => /\ calc.last_call.result.path = "simple"
            /\ calc.last_call.result.confidence = 50
            /\ Len(calc.last_call.current_data) > 0
                 => LET q == calc.last_call.current_data
                        r == calc.last_call.result
                    IN  /\ IsAverageOf(r.predicted_apy_7d, q[Len(q)], MeanOfLast(q, 7))
                        /\ IsAverageOf(r.predicted_apy_30d, q[Len(q)], MeanOfLast(q, Len(q)))

\* C22 as amended: for a series that carries the 'apy' column train does not
\* raise for lack of data: with fewer than max(lookback_days, 14) rows it
\* returns "insufficient_data", otherwise with fewer than 10 rows left with
\* both targets "insufficient_samples", and marks the model untrained; a
\* predict made while untrained on a non-empty recent series returns the
\* heuristic (7-day forecast the average of the current value and the mean
\* of the last 7 rows, 30-day forecast the average of the current value and
\* the mean of the whole recent series) with confidence 0.5, and on an empty
\* recent series forecasts of 0 with confidence 0.
C22_LackOfDataDegradesToHeuristicUnlessEmpty ==
    /\ (calc.last_call.op = "train" /\ calc.last_call.historical_data.has_apy
          /\ LacksData(calc.lookback_days, calc.last_call.historical_data))
         => /\ calc.last_call.result =
                 (IF calc.last_call.historical_data.rows
                        < (IF calc.lookback_days > 14 THEN calc.lookback_days ELSE 14)
                  THEN "insufficient_data" ELSE "insufficient_samples")
            /\ ~calc.predictor._is_trained
    /\ (calc.last_call.op = "predict" /\ ~calc.last_call.was_trained)
         => LET q == calc.last_call.current_data
                r == calc.last_call.result
            IN  /\ r.path = "simple"
                /\ IF Len(q) > 0
                   THEN /\ r.confidence = 50
                        /\ IsAverageOf(r.predicted_apy_7d, q[Len(q)], MeanOfLast(q, 7))
                        /\ IsAverageOf(r.predicted_apy_30d, q[Len(q)], MeanOfLast(q, Len(q)))
                   ELSE /\ r.confidence = 0
                        /\ r.predicted_apy_7d.num = 0
                        /\ r.predicted_apy_30d.num = 0

\* C22 witness: the last training of a strategy stopped for lack of rows
\* with targets, and a predict for it on eight recent rows took the
\* heuristic, whose two forecasts differ.
C22_Witness ==
    /\ calc.stage = "predictor"
    /\ calc.last_call.op = "predict"
    /\ ~calc.last_call.was_trained
    /\ calc.last_train[calc.last_call.strategy_id] = "insufficient_samples"
    /\ Len(calc.last_call.current_data) = 8
    /\ calc.last_call.result.confidence = 50
    /\ calc.last_call.result.predicted_apy_7d # calc.last_call.result.predicted_apy_30d

\* C23: forecast models are per strategy: predict(id) takes the trained path
\* exactly when the most recent train call for that same id succeeded, and
\* then uses the models and scalers fitted on that id's series; training, or
\* failing to train, another strategy never changes the outcome of predict
\* for id.
C23_ModelsArePerStrategy ==
    (calc.stage = "predictor" /\ calc.last_call.op = "predict")
        => LET id == calc.last_call.strategy_id
               r == calc.last_call.result
           IN  /\ (r.path # "simple") <=> (calc.last_train[id] = "trained")
               /\ r.path # "simple" => r.model_of = id

====
